---- MODULE Spec2Model ----
(***************************************************************************)
(* A model of codehist: the Copilot chat-history parser (parsers/copilot), *)
(* the canonical model (models.py) and the CLI commands that call them.    *)
(*                                                                         *)
(* Conventions.  A Python text is a sequence of string pieces (<<>> is     *)
(* the empty text ""), so that texts can be built, measured and compared.  *)
(* Identifiers and dictionary keys are TLA+ strings; None is the Python    *)
(* None.  A JSON field that may be missing is a record with a tag t:       *)
(* "absent" (the key is not in the mapping), "null", "str", "num", ...     *)
(***************************************************************************)
EXTENDS Integers, Sequences, FiniteSets, TLC

VARIABLES
    \* one call of parse_chat_session / parse_chat_editing_session
    file, result, ppc,
    \* one run of a CLI command: the file system, the discovery loop, the exit
    fs, cmd, pc, root_i, all_data, exit_code, console, parse_count,
    \* the metadata merge loop of discover_vscode_copilot_data
    m_init, m_acc, m_items, m_base, m_i, m_prev, m_round,
    \* the to_dict / from_dict round trip
    w_in, w_dict, w_out, rpc,
    \* one call of search_chat_content / get_chat_statistics
    q_data, q_query, q_case, q_results, q_stats, qpc,
    \* one call of ChunkedJSONExporter.export_data_chunked
    e_sessions, e_size, e_chunks, e_files, e_out, epc

parseVars == <<file, result, ppc>>
cliVars == <<fs, cmd, pc, root_i, all_data, exit_code, console, parse_count>>
mergeVars == <<m_init, m_acc, m_items, m_base, m_i, m_prev, m_round>>
rtVars == <<w_in, w_dict, w_out, rpc>>
queryVars == <<q_data, q_query, q_case, q_results, q_stats, qpc>>
exportVars == <<e_sessions, e_size, e_chunks, e_files, e_out, epc>>
vars == <<parseVars, cliVars, mergeVars, rtVars, queryVars, exportVars>>

----------------------------------------------------------------------------
(* Bounds of the model *)

\* the longest 'requests' / 'linearHistory' list of a file
MaxRequests == 2
\* the largest second count of a clock reading (file mtime, creationDate)
MaxTime == 2
\* the most session files on the file system of one run
MaxFiles == 3
\* the most keys of a root's metadata
MaxKeys == 2
\* the most sessions of a WorkspaceData and the most messages of a session
\* that is serialised
MaxSessions == 2
MaxMessages == 2
\* the most sessions of an export and the largest chunk_size
MaxExport == 3
MaxChunkSize == 3

----------------------------------------------------------------------------
(* Python values *)

None == "<None>"

\* a JSON text-like value: t is its JSON type, s the text when t = "str",
\* n the number when t = "num" (or the length of a list / mapping)
JV(t, s, n) == [t |-> t, s |-> s, n |-> n]
JAbsent == JV("absent", <<>>, 0)
JNull == JV("null", <<>>, 0)
JStr(s) == JV("str", s, 0)
JNum(n) == JV("num", <<>>, n)
JList(n) == JV("list", <<>>, n)

\* Python truthiness of a JSON value (the "if x:" tests of the parser)
Truthy(v) ==
    CASE v.t = "str" -> v.s # <<>>
      [] v.t \in {"num", "list", "dict"} -> v.n # 0
      [] OTHER -> FALSE

\* dict.get(key, default): the default only when the key is absent;
\* a key that holds null yields None
Get(v, default) == IF v.t = "absent" THEN default ELSE v

\* an identifier field of the JSON: absent, null or a string
IdAbsent == [t |-> "absent", id |-> None]
IdNull == [t |-> "null", id |-> None]
IdStr(x) == [t |-> "str", id |-> x]
\* data.get(key): None when absent or null
GetId(v) == IF v.t = "str" THEN v.id ELSE None
\* data.get(key, default)
GetIdOr(v, default) == IF v.t = "absent" THEN default ELSE GetId(v)

----------------------------------------------------------------------------
(* datetime and ISO-8601 strings *)

\* a datetime: wall-clock seconds and microseconds, and, when aware, the
\* UTC offset in minutes
DateTime(secs, us, aware, off) ==
    [secs |-> secs, us |-> us, aware |-> aware, off |-> off]
NoTime == DateTime(0 - 1, 0, FALSE, 0)

\* datetime.fromtimestamp(st_mtime): a naive local datetime
fromtimestamp(mtime) == DateTime(mtime, 0, FALSE, 0)

\* The pieces of a timestamp string: "dt" is YYYY-MM-DDTHH:MM:SS (v its
\* second count), "frac" is .ffffff (v the microseconds), "off" is +HH:MM
\* (v the minutes), "Z" is the letter Z, "junk" is any other text.
Tok(k, v) == [k |-> k, v |-> v]

\* str.replace('Z', '+00:00')
replace_Z(toks) ==
    [j \in 1..Len(toks) |->
        IF toks[j].k = "Z" THEN Tok("off", 0) ELSE toks[j]]

\* datetime.fromisoformat: [ok, dt].  It accepts dt[.frac][+HH:MM] and
\* nothing else; a literal Z is refused (the behaviour the replace call in
\* the parser is written for; with the replace no Z reaches it).
fromisoformat(toks) ==
    LET n == Len(toks)
        hasFrac == n >= 2 /\ toks[2].k = "frac"
        offAt == IF hasFrac THEN 3 ELSE 2
        hasOff == n = offAt /\ toks[offAt].k = "off"
        wellformed ==
            /\ n >= 1
            /\ toks[1].k = "dt"
            /\ n = (IF hasFrac THEN 2 ELSE 1) \/ hasOff
    IN  IF wellformed
        THEN [ok |-> TRUE,
              dt |-> DateTime(toks[1].v,
                              IF hasFrac THEN toks[2].v ELSE 0,
                              hasOff,
                              IF hasOff THEN toks[offAt].v ELSE 0)]
        ELSE [ok |-> FALSE, dt |-> NoTime]

\* datetime.isoformat(timespec='seconds'): the microseconds are cut
isoformat_Seconds(d) ==
    <<Tok("dt", d.secs)>>
    \o (IF d.aware THEN <<Tok("off", d.off)>> ELSE <<>>)

\* datetime.isoformat(): the fraction only when microsecond # 0, the offset
\* only when aware
isoformat(d) ==
    <<Tok("dt", d.secs)>>
    \o (IF d.us # 0 THEN <<Tok("frac", d.us)>> ELSE <<>>)
    \o (IF d.aware THEN <<Tok("off", d.off)>> ELSE <<>>)

----------------------------------------------------------------------------
(* The canonical model: Message, ChatSession, WorkspaceData (models.py) *)

Message(role, content, timestamp, id, type) ==
    [role |-> role, content |-> content, timestamp |-> timestamp, id |-> id,
     metadata |-> [type |-> type]]

\* the ChatSession the adapters build: agent "GitHub Copilot", workspace None
ChatSession(timestamp, messages, session_id, type) ==
    [agent |-> "GitHub Copilot", timestamp |-> timestamp,
     messages |-> messages, workspace |-> None, session_id |-> session_id,
     metadata |-> [type |-> type]]

NoSession == ChatSession(NoTime, <<>>, None, "none")

\* what a call of an adapter gives its caller: a session, None, or (only
\* when nothing catches it) an exception
Returned(s) == [kind |-> "session", session |-> s]
ReturnedNone == [kind |-> "none", session |-> NoSession]
Raised == [kind |-> "raise", session |-> NoSession]

----------------------------------------------------------------------------
(* parse_chat_session: the live-session adapter *)

\* the assistant text of a response: 'value', then 'text', then 'content' of
\* a mapping, the first key that is present; the response itself when it is
\* a string; "" otherwise
ResponseText_ContentFirst(response) ==
    CASE response.t = "dict" ->
            IF response.content.t # "absent" THEN response.content
            ELSE IF response.text.t # "absent" THEN response.text
            ELSE IF response.value.t # "absent" THEN response.value
            ELSE JStr(<<>>)
      [] response.t = "str" -> JStr(response.s)
      [] OTHER -> JStr(<<>>)

ResponseText(response) ==
    CASE response.t = "dict" ->
            IF response.value.t # "absent" THEN response.value
            ELSE IF response.text.t # "absent" THEN response.text
            ELSE IF response.content.t # "absent" THEN response.content
            ELSE JStr(<<>>)
      [] response.t = "str" -> JStr(response.s)
      [] OTHER -> JStr(<<>>)

\* "if response:" -- a mapping is truthy when it has any key
ResponseTruthy(response) ==
    CASE response.t = "dict" -> response.n # 0
      [] response.t = "str" -> response.s # <<>>
      [] response.t \in {"num", "list"} -> response.n # 0
      [] OTHER -> FALSE

\* request.get('message', {}).get('text', ''): None.get raises when
\* 'message' is null, and so does <int>.get when the request is no mapping
RequestRaises(request) ==
    \/ ~request.isdict
    \/ request.message.t \notin {"absent", "dict"}

UserText(request) ==
    IF request.message.t = "absent" THEN JStr(<<>>)
    ELSE Get(request.message.text, JStr(<<>>))

UserMessages(request, timestamp) ==
    IF Truthy(UserText(request))
    THEN <<Message("user", UserText(request).s, timestamp,
                   GetId(request.requestId), "user_request")>>
    ELSE <<>>

AssistantMessages(request, timestamp) ==
    IF ResponseTruthy(request.response)
          /\ Truthy(ResponseText(request.response))
    THEN <<Message("assistant", ResponseText(request.response).s, timestamp,
                   GetId(request.responseId), "assistant_response")>>
    ELSE <<>>

\* one turn of the loop over data.get('requests', [])
RequestMessages_AssistantFirst(request, timestamp) ==
    AssistantMessages(request, timestamp) \o UserMessages(request, timestamp)

RequestMessages(request, timestamp) ==
    UserMessages(request, timestamp) \o AssistantMessages(request, timestamp)

RECURSIVE ExtractMessages(_, _)
ExtractMessages(requests, timestamp) ==
    IF requests = <<>> THEN <<>>
    ELSE RequestMessages(Head(requests), timestamp)
            \o ExtractMessages(Tail(requests), timestamp)

\* datetime.fromisoformat(creation_date.replace('Z', '+00:00')): "ok", or
\* the exception it ends with -- a ValueError for a string that is no
\* timestamp, an AttributeError for a value without .replace (a number)
TimestampAttempt_NoReplace(creationDate) ==
    IF creationDate.t # "str" THEN "AttributeError"
    ELSE IF fromisoformat(creationDate.s).ok THEN "ok"
    ELSE "ValueError"

TimestampAttempt(creationDate) ==
    IF creationDate.t # "str" THEN "AttributeError"
    ELSE IF fromisoformat(replace_Z(creationDate.s)).ok THEN "ok"
    ELSE "ValueError"

\* the bare "except:" around it catches every exception
InnerExceptCatches(exception) == TRUE

\* an exception of the timestamp parse that leaves the inner try
TimestampRaises(f) ==
    /\ Truthy(f.creationDate)
    /\ TimestampAttempt(f.creationDate) # "ok"
    /\ ~InnerExceptCatches(TimestampAttempt(f.creationDate))

\* the session timestamp: creationDate when truthy and parsable, else the
\* file's modification time
ResolveTimestamp(f) ==
    IF Truthy(f.creationDate) /\ TimestampAttempt(f.creationDate) = "ok"
    THEN fromisoformat(replace_Z(f.creationDate.s)).dt
    ELSE fromtimestamp(f.mtime)

\* whether the body of the try block raises: open() or json.load fails, the
\* JSON is no mapping (data.get), 'requests' is no list (iteration), or a
\* request raises
LiveBodyRaises(f) ==
    \/ f.load # "ok"
    \/ f.top # "dict"
    \/ TimestampRaises(f)
    \/ f.requests.t \notin {"absent", "list"}
    \/ \E j \in 1..Len(f.requests.items) : RequestRaises(f.requests.items[j])

LiveBody(f) ==
    ChatSession(ResolveTimestamp(f),
                ExtractMessages(f.requests.items, ResolveTimestamp(f)),
                GetIdOr(f.sessionId, f.stem),
                "chat_session")

parse_chat_session_NoCatch(f) ==
    IF LiveBodyRaises(f) THEN Raised ELSE Returned(LiveBody(f))

parse_chat_session(f) ==
    IF LiveBodyRaises(f) THEN ReturnedNone ELSE Returned(LiveBody(f))


----------------------------------------------------------------------------
(* parse_chat_editing_session: the legacy editing-session adapter *)

\* len(x) of a JSON value: a TypeError for null and for a number
LenRaises(v) == v.t \in {"null", "num"}

\* one linearHistory entry: <non-mapping>.get raises, len(working_set)
\* raises when 'workingSet' is no list, and len(entries) is only taken when
\* entries is truthy
EntryRaises(entry) ==
    \/ ~entry.isdict
    \/ LenRaises(entry.workingSet)
    \/ (Truthy(entry.entries) /\ LenRaises(entry.entries))

EntryContent(entry) ==
    <<"Chat editing session with ", ToString(entry.workingSet.n),
      " files in working set">>
    \o (IF Truthy(entry.entries)
        THEN <<" and ", ToString(entry.entries.n), " entries">>
        ELSE <<>>)

\* an id counted from 1
EntryId_FromOne(entry, i) ==
    GetIdOr(entry.requestId, "request_" \o ToString(i + 1))

\* history_entry.get('requestId', f'request_{i}'), i counted from 0
EntryId(entry, i) == GetIdOr(entry.requestId, "request_" \o ToString(i))

\* every message stamped with a time of its own
RECURSIVE HistoryMessages_OwnClock(_, _, _)
HistoryMessages_OwnClock(entries, i, timestamp) ==
    IF entries = <<>> THEN <<>>
    ELSE <<Message("system", EntryContent(Head(entries)), fromtimestamp(i),
                   EntryId(Head(entries), i), "editing_session")>>
            \o HistoryMessages_OwnClock(Tail(entries), i + 1, timestamp)

RECURSIVE HistoryMessages(_, _, _)
HistoryMessages(entries, i, timestamp) ==
    IF entries = <<>> THEN <<>>
    ELSE <<Message("system", EntryContent(Head(entries)), timestamp,
                   EntryId(Head(entries), i), "editing_session")>>
            \o HistoryMessages(Tail(entries), i + 1, timestamp)

\* "if recent_snapshot:" -- recent_snapshot.get raises for a non-empty
\* list or a number, len() for a 'workingSet' that is no list
SnapshotTruthy(snapshot) ==
    snapshot.t \in {"dict", "list", "num"} /\ snapshot.n # 0

SnapshotRaises(snapshot) ==
    /\ SnapshotTruthy(snapshot)
    /\ snapshot.t # "dict" \/ LenRaises(snapshot.workingSet)

\* f"snapshot_{session_id}": None is formatted as the text None
SnapshotMessages(snapshot, session_id, timestamp) ==
    IF SnapshotTruthy(snapshot)
    THEN <<Message("system",
                   <<"Recent snapshot with ",
                     ToString(snapshot.workingSet.n), " files">>,
                   timestamp,
                   "snapshot_"
                      \o (IF session_id = None THEN "None" ELSE session_id),
                   "snapshot")>>
    ELSE <<>>

EditingBodyRaises(f) ==
    \/ f.load # "ok"
    \/ f.top # "dict"
    \/ f.linearHistory.t \notin {"absent", "list"}
    \/ \E j \in 1..Len(f.linearHistory.items) :
            EntryRaises(f.linearHistory.items[j])
    \/ SnapshotRaises(f.recentSnapshot)

EditingBody(f) ==
    LET session_id == GetIdOr(f.sessionId, "")
        timestamp == fromtimestamp(f.mtime)
    IN  ChatSession(timestamp,
                    HistoryMessages(f.linearHistory.items, 0, timestamp)
                       \o SnapshotMessages(f.recentSnapshot, session_id,
                                           timestamp),
                    session_id,
                    "chat_editing_session")

parse_chat_editing_session(f) ==
    IF EditingBodyRaises(f) THEN ReturnedNone ELSE Returned(EditingBody(f))

\* the adapter the discovery engine picks for a file, by the glob pattern
\* that matched it
ParseFile(f) ==
    IF f.schema = "live" THEN parse_chat_session(f)
    ELSE parse_chat_editing_session(f)

----------------------------------------------------------------------------
(* The files the adapters are run on *)

Resp(t, s, n, value, text, content) ==
    [t |-> t, s |-> s, n |-> n, value |-> value, text |-> text,
     content |-> content]

Present(v) == IF v.t = "absent" THEN 0 ELSE 1

TextField(x) == {JAbsent, JStr(<<>>), JStr(<<x>>)}

\* a mapping response with any of 'value', 'text', 'content'; with a null
\* 'value'; with another key only
DictResponses ==
    {Resp("dict", <<>>, Present(v) + Present(t) + Present(c) + 1, v, t, c) :
        v \in TextField("v"), t \in TextField("t"), c \in TextField("c")}
    \cup {Resp("dict", <<>>, 2, JNull, JStr(<<"t">>), JAbsent)}

PlainResponse(t, s, n) == Resp(t, s, n, JAbsent, JAbsent, JAbsent)

OtherResponses ==
    {PlainResponse("absent", <<>>, 0), PlainResponse("null", <<>>, 0),
     PlainResponse("str", <<>>, 0), PlainResponse("str", <<"s">>, 0),
     PlainResponse("list", <<>>, 1), PlainResponse("dict", <<>>, 0)}

MessageField(t, text) == [t |-> t, text |-> text]

MessageFields ==
    {MessageField("absent", JAbsent), MessageField("null", JAbsent)}
    \cup {MessageField("dict", x) :
            x \in {JAbsent, JNull, JStr(<<>>), JStr(<<"hi">>)}}

Request(isdict, message, response, requestId, responseId) ==
    [isdict |-> isdict, message |-> message, response |-> response,
     requestId |-> requestId, responseId |-> responseId]

NotAMapping ==
    Request(FALSE, MessageField("absent", JAbsent),
            PlainResponse("absent", <<>>, 0), IdAbsent, IdAbsent)

\* every shape of response under a user text, every shape of 'message'
\* under a string response, and a request that is no mapping
Requests ==
    {Request(TRUE, MessageField("dict", JStr(<<"hi">>)), r,
             IdStr("req"), IdStr("resp")) :
        r \in DictResponses \cup OtherResponses}
    \cup {Request(TRUE, m, PlainResponse("str", <<"s">>, 0),
                  IdAbsent, IdAbsent) : m \in MessageFields}
    \cup {NotAMapping}

\* the requests that lists of several requests are made of
CoreResponses ==
    {Resp("dict", <<>>, 2, JStr(<<"v">>), JAbsent, JAbsent),
     Resp("dict", <<>>, 2, JAbsent, JStr(<<"t">>), JAbsent),
     Resp("dict", <<>>, 3, JStr(<<>>), JStr(<<"t">>), JAbsent),
     PlainResponse("str", <<"s">>, 0), PlainResponse("str", <<>>, 0),
     PlainResponse("list", <<>>, 1), PlainResponse("absent", <<>>, 0)}

CoreRequests ==
    {Request(TRUE, MessageField("dict", JStr(<<"hi">>)), r,
             IdStr("req"), IdStr("resp")) : r \in CoreResponses}
    \cup {Request(TRUE, m, PlainResponse("str", <<"s">>, 0),
                  IdAbsent, IdAbsent) :
            m \in {MessageField("absent", JAbsent),
                   MessageField("null", JAbsent),
                   MessageField("dict", JStr(<<>>))}}
    \cup {NotAMapping}

SeqsUpTo(S, n) == UNION {[1..k -> S] : k \in 0..n}

\* the JSON value of 'requests' / 'linearHistory'
ListField(t, items) == [t |-> t, items |-> items]

Times == 1..MaxTime

\* creationDate: absent, null, a number (epoch milliseconds), "", an
\* ISO-8601 string with or without fraction and with Z, an offset or no
\* suffix, or a string that is no timestamp
IsoStrings ==
    {<<Tok("dt", s)>> \o fr \o su :
        s \in Times,
        fr \in {<<>>, <<Tok("frac", 5)>>},
        su \in {<<>>, <<Tok("Z", 0)>>, <<Tok("off", 0)>>, <<Tok("off", 60)>>}}

MalformedStrings ==
    {<<Tok("junk", 0)>>, <<Tok("Z", 0)>>,
     <<Tok("dt", 1), Tok("junk", 0)>>,
     <<Tok("dt", 1), Tok("Z", 0), Tok("Z", 0)>>,
     <<Tok("dt", 1), Tok("off", 0), Tok("frac", 5)>>,
     <<Tok("junk", 0), Tok("dt", 1)>>}

CreationDates ==
    {JAbsent, JNull, JNum(17), JNum(0), JStr(<<>>)}
    \cup {JStr(x) : x \in IsoStrings \cup MalformedStrings}

SessionIds == {IdAbsent, IdNull, IdStr("sid")}

LiveFile(load, top, stem, mtime, sessionId, creationDate, requests) ==
    [schema |-> "live", load |-> load, top |-> top, stem |-> stem,
     mtime |-> mtime, sessionId |-> sessionId,
     creationDate |-> creationDate, requests |-> requests]

\* a file that cannot be opened, is no JSON, or is JSON but no mapping
BrokenLive(load, top) ==
    LiveFile(load, top, "stem", 1, IdAbsent, JAbsent, ListField("absent", <<>>))

BrokenLiveFiles ==
    {BrokenLive("missing", "dict"), BrokenLive("badjson", "dict"),
     BrokenLive("ok", "list"), BrokenLive("ok", "num"),
     BrokenLive("ok", "null")}

SampleRequest ==
    Request(TRUE, MessageField("dict", JStr(<<"hi">>)),
            Resp("dict", <<>>, 2, JStr(<<"v">>), JAbsent, JAbsent),
            IdStr("req"), IdStr("resp"))

LiveFiles ==
    BrokenLiveFiles
    \cup {LiveFile("ok", "dict", "stem", mt, sid, cd, ListField("list", rs)) :
            mt \in Times, sid \in SessionIds, cd \in CreationDates,
            rs \in {<<>>, <<SampleRequest>>}}
    \cup {LiveFile("ok", "dict", "stem", 1, IdStr("sid"), JAbsent,
                   ListField(t, <<>>)) : t \in {"absent", "null", "num"}}
    \cup {LiveFile("ok", "dict", "stem", 1, IdStr("sid"), JAbsent,
                   ListField("list", <<r>>)) : r \in Requests}
    \cup {LiveFile("ok", "dict", "stem", 1, IdStr("sid"), JAbsent,
                   ListField("list", rs)) :
            rs \in SeqsUpTo(CoreRequests, MaxRequests)}

CountField(t, n) == [t |-> t, n |-> n]

CountFields ==
    {CountField("absent", 0), CountField("null", 0), CountField("num", 3),
     CountField("list", 0), CountField("list", 2)}

Entry(isdict, requestId, workingSet, entries) ==
    [isdict |-> isdict, requestId |-> requestId, workingSet |-> workingSet,
     entries |-> entries]

SampleEntry ==
    Entry(TRUE, IdStr("rid"), CountField("list", 2), CountField("absent", 0))

Entries ==
    {Entry(TRUE, rid, ws, CountField("absent", 0)) :
        rid \in {IdAbsent, IdStr("rid")}, ws \in CountFields}
    \cup {Entry(TRUE, IdAbsent, CountField("list", 2), en) :
            en \in CountFields}
    \cup {Entry(TRUE, IdNull, CountField("list", 2), CountField("absent", 0)),
          Entry(FALSE, IdAbsent, CountField("absent", 0),
                CountField("absent", 0))}

Snapshot(t, n, workingSet) == [t |-> t, n |-> n, workingSet |-> workingSet]

Snapshots ==
    {Snapshot("absent", 0, CountField("absent", 0)),
     Snapshot("null", 0, CountField("absent", 0)),
     Snapshot("dict", 0, CountField("absent", 0)),
     Snapshot("list", 1, CountField("absent", 0)),
     Snapshot("dict", 1, CountField("absent", 0)),
     Snapshot("dict", 1, CountField("list", 2)),
     Snapshot("dict", 1, CountField("null", 0))}

EditingFile(load, top, mtime, sessionId, linearHistory, recentSnapshot) ==
    [schema |-> "editing", load |-> load, top |-> top, mtime |-> mtime,
     sessionId |-> sessionId, linearHistory |-> linearHistory,
     recentSnapshot |-> recentSnapshot]

BrokenEditing(load, top) ==
    EditingFile(load, top, 1, IdAbsent, ListField("absent", <<>>),
                Snapshot("absent", 0, CountField("absent", 0)))

BrokenEditingFiles ==
    {BrokenEditing("missing", "dict"), BrokenEditing("badjson", "dict"),
     BrokenEditing("ok", "list")}

EditingFiles ==
    BrokenEditingFiles
    \cup {EditingFile("ok", "dict", mt, sid, ListField("list", es), sn) :
            mt \in Times, sid \in SessionIds, sn \in Snapshots,
            es \in {<<>>, <<SampleEntry>>}}
    \cup {EditingFile("ok", "dict", 1, IdStr("sid"), ListField("list", es), sn) :
            es \in SeqsUpTo(Entries, MaxRequests),
            sn \in {Snapshot("absent", 0, CountField("absent", 0)),
                    Snapshot("dict", 1, CountField("list", 2))}}
    \cup {EditingFile("ok", "dict", 1, IdStr("sid"), ListField(t, <<>>),
                      Snapshot("absent", 0, CountField("absent", 0))) :
            t \in {"absent", "null"}}

----------------------------------------------------------------------------
(* The other parts of the model at rest *)

CliIdle ==
    /\ fs = <<>>
    /\ cmd = "none"
    /\ pc = "idle"
    /\ root_i = 0
    /\ all_data = <<>>
    /\ exit_code = 0
    /\ console = <<>>
    /\ parse_count = <<>>

MergeIdle ==
    /\ m_init = <<>>
    /\ m_acc = <<>>
    /\ m_items = <<>>
    /\ m_base = ""
    /\ m_i = 0
    /\ m_prev = <<>>
    /\ m_round = 0

RoundTripIdle ==
    /\ w_in = <<>>
    /\ w_dict = <<>>
    /\ w_out = <<>>
    /\ rpc = "idle"

ExportIdle ==
    /\ e_sessions = <<>>
    /\ e_size = 1
    /\ e_chunks = <<>>
    /\ e_files = <<>>
    /\ e_out = <<>>
    /\ epc = "idle"

QueryIdle ==
    /\ q_data = <<>>
    /\ q_query = <<>>
    /\ q_case = FALSE
    /\ q_results = <<>>
    /\ q_stats = <<>>
    /\ qpc = "idle"

----------------------------------------------------------------------------
(* One call of an adapter on one file *)

ParseInit ==
    /\ file \in LiveFiles \cup EditingFiles
    /\ result = ReturnedNone
    /\ ppc = "call"

CallParseChatSession ==
    /\ ppc = "call"
    /\ file.schema = "live"
    /\ result' = parse_chat_session(file)
    /\ ppc' = "returned"
    /\ UNCHANGED <<file, cliVars, mergeVars, rtVars, queryVars, exportVars>>

CallParseChatEditingSession ==
    /\ ppc = "call"
    /\ file.schema = "editing"
    /\ result' = parse_chat_editing_session(file)
    /\ ppc' = "returned"
    /\ UNCHANGED <<file, cliVars, mergeVars, rtVars, queryVars, exportVars>>


----------------------------------------------------------------------------
(* Specification: an adapter called on any one file *)

ParseSpecInit == ParseInit /\ CliIdle /\ MergeIdle /\ RoundTripIdle
       /\ QueryIdle /\ ExportIdle

ParseNext ==
    \/ CallParseChatSession
    \/ CallParseChatEditingSession

ParseSpec == ParseSpecInit /\ [][ParseNext]_vars

----------------------------------------------------------------------------
(* Claims about parse_chat_session *)

\* a live-session file that is valid JSON of the live-session shape: a
\* mapping whose 'requests' is a list of mappings
ValidLiveJson(f) ==
    /\ f.schema = "live"
    /\ f.load = "ok"
    /\ f.top = "dict"
    /\ f.requests.t = "list"
    /\ \A j \in 1..Len(f.requests.items) :
          /\ f.requests.items[j].isdict
          /\ f.requests.items[j].message.t \in {"absent", "dict"}

\* the request carries user text
HasUserText(request) ==
    /\ request.message.t = "dict"
    /\ request.message.text.t = "str"
    /\ request.message.text.s # <<>>

\* the request carries a response: the key is there and holds something
HasResponse(request) ==
    /\ request.response.t \notin {"absent", "null"}
    /\ request.response.t = "str" => request.response.s # <<>>
    /\ request.response.t \in {"dict", "list", "num"} =>
          request.response.n # 0

\* the first of 'value', 'text', 'content' that the mapping holds
FirstPresentField(response) ==
    LET fields == <<response.value, response.text, response.content>>
        present == {j \in 1..3 : fields[j].t # "absent"}
    IN  IF present = {} THEN JAbsent
        ELSE fields[CHOOSE j \in present : \A k \in present : j <= k]

\* the text the response resolves to, <<>> when it resolves to none
ResolvedText(response) ==
    IF response.t = "str" THEN response.s
    ELSE IF response.t = "dict" /\ FirstPresentField(response).t = "str"
    THEN FirstPresentField(response).s
    ELSE <<>>

RequestPairsUp(f, eachHasBoth) ==
    (ppc = "returned" /\ ValidLiveJson(f) /\ eachHasBoth)
    => LET requests == f.requests.items
           messages == result.session.messages
       IN  /\ result.kind = "session"
           /\ Len(messages) = 2 * Len(requests)
           /\ \A j \in 1..Len(requests) :
                 /\ messages[2 * j - 1].role = "user"
                 /\ messages[2 * j - 1].content = requests[j].message.text.s
                 /\ messages[2 * j].role = "assistant"
                 /\ messages[2 * j].content
                       = ResolvedText(requests[j].response)

\* C1 as stated: N requests, each with user text and a response, give
\* exactly 2N messages in request order, user then assistant for each
\* request.
C1_TwoMessagesPerRequest ==
    RequestPairsUp(file,
        \A j \in 1..Len(file.requests.items) :
            /\ HasUserText(file.requests.items[j])
            /\ HasResponse(file.requests.items[j]))

\* C1 as amended: N requests, each with non-empty user text and a response
\* that resolves to non-empty text (a non-empty string, or a mapping whose
\* first present key of 'value', 'text', 'content' holds non-empty text),
\* give exactly 2N messages in request order, user then assistant for each
\* request.
C1_TwoMessagesPerRequestWithText ==
    RequestPairsUp(file,
        \A j \in 1..Len(file.requests.items) :
            /\ HasUserText(file.requests.items[j])
            /\ ResolvedText(file.requests.items[j].response) # <<>>)

\* two requests with different responses, both with text, were parsed
C1_Witness ==
    /\ ppc = "returned"
    /\ ValidLiveJson(file)
    /\ Len(file.requests.items) = 2
    /\ \A j \in 1..2 :
          /\ HasUserText(file.requests.items[j])
          /\ ResolvedText(file.requests.items[j].response) # <<>>
    /\ file.requests.items[1].response.t = "dict"
    /\ file.requests.items[1].response.value.t = "absent"
    /\ file.requests.items[2].response.t = "str"
    /\ Len(result.session.messages) = 4

\* a timestamp string of the ISO-8601 form: date and time, an optional
\* fraction, and an optional Z or +HH:MM
ValidIso(toks) ==
    LET n == Len(toks)
        suffix(j) == toks[j].k \in {"Z", "off"}
    IN  /\ n \in 1..3
        /\ toks[1].k = "dt"
        /\ n = 2 => toks[2].k = "frac" \/ suffix(2)
        /\ n = 3 => toks[2].k = "frac" /\ suffix(3)

\* the instant such a string names, Z read as UTC
IsoInstant(toks) ==
    LET n == Len(toks)
        last == toks[n]
    IN  DateTime(toks[1].v,
                 IF n >= 2 /\ toks[2].k = "frac" THEN toks[2].v ELSE 0,
                 last.k \in {"Z", "off"},
                 IF last.k = "off" THEN last.v ELSE 0)

\* C2: the session timestamp is the instant of creationDate when that is a
\* valid ISO-8601 string (a trailing Z is UTC) and the file's modification
\* time when it is absent or cannot be parsed; no creationDate makes a file
\* that is otherwise valid yield no session.
C2_TimestampResolution ==
    (ppc = "returned" /\ ValidLiveJson(file))
    => /\ result.kind = "session"
       /\ result.session.timestamp
             = IF file.creationDate.t = "str" /\ ValidIso(file.creationDate.s)
               THEN IsoInstant(file.creationDate.s)
               ELSE fromtimestamp(file.mtime)

\* a creationDate ending in Z was parsed to an aware UTC datetime
C2_Witness ==
    /\ ppc = "returned"
    /\ ValidLiveJson(file)
    /\ file.creationDate.t = "str"
    /\ Len(file.creationDate.s) = 2
    /\ file.creationDate.s[2].k = "Z"
    /\ result.session.timestamp = DateTime(file.creationDate.s[1].v, 0, TRUE, 0)
    /\ file.mtime # file.creationDate.s[1].v


----------------------------------------------------------------------------
(* Dictionaries: Python dicts keep insertion order, so a dict is a        *)
(* sequence of items with distinct keys                                    *)

Item(key, value) == [key |-> key, value |-> value]

\* a metadata value: a scalar (a string) or a list of strings
Scalar(x) == [list |-> FALSE, elems |-> <<x>>]
ListOf(xs) == [list |-> TRUE, elems |-> xs]

Keys(d) == {d[j].key : j \in 1..Len(d)}

\* the position of a key that the dict holds
IndexOf(d, key) == CHOOSE j \in 1..Len(d) : d[j].key = key

\* d[key]
Lookup(d, key) == d[IndexOf(d, key)].value

\* d[key] = value: in place when the key is there, else appended
SetItem(d, key, value) ==
    IF key \in Keys(d)
    THEN [d EXCEPT ![IndexOf(d, key)].value = value]
    ELSE Append(d, Item(key, value))

WorkspaceData(agent, workspace_path, chat_sessions, metadata) ==
    [agent |-> agent, version |-> None, workspace_path |-> workspace_path,
     chat_sessions |-> chat_sessions, metadata |-> metadata]

----------------------------------------------------------------------------
(* discover_copilot_data: one storage root *)

\* base_path.glob(pattern), in the order the file system gives; [raised,
\* files].  Under a path that does not exist it yields nothing and raises
\* nothing.
Glob_Listdir(root, schema) ==
    [raised |-> ~root.exists,
     files |-> IF schema = "live" THEN root.live ELSE root.editing]

Glob(root, schema) ==
    [raised |-> FALSE,
     files |-> IF ~root.exists THEN <<>>
               ELSE IF schema = "live" THEN root.live ELSE root.editing]

\* the loop over one pattern's files: [raised, sessions]; "if session:"
\* keeps what is not None
RECURSIVE CollectSessions(_)
CollectSessions(files) ==
    IF files = <<>> THEN [raised |-> FALSE, sessions |-> <<>>]
    ELSE LET got == ParseFile(Head(files))
             rest == CollectSessions(Tail(files))
         IN  IF got.kind = "raise"
             THEN [raised |-> TRUE, sessions |-> <<>>]
             ELSE [raised |-> rest.raised,
                   sessions |-> (IF got.kind = "session"
                                 THEN <<got.session>> ELSE <<>>)
                                \o rest.sessions]

\* the sessions of a root: the live-session pattern first, then the
\* editing-session pattern
RootSessions_EditingFirst(live, editing) == editing \o live

RootSessions(live, editing) == live \o editing

\* [raised, data]
discover_copilot_data(root) ==
    LET live == Glob(root, "live")
        editing == Glob(root, "editing")
        fromLive == CollectSessions(live.files)
        fromEditing == CollectSessions(editing.files)
    IN  [raised |-> \/ live.raised \/ fromLive.raised
                    \/ editing.raised \/ fromEditing.raised,
         data |-> WorkspaceData("GitHub Copilot", root.path,
                      RootSessions(fromLive.sessions, fromEditing.sessions),
                      <<Item("discovery_source", Scalar(root.path))>>)]

\* the adapter calls of one root, as (root, pattern, position in the glob)
ParsedBy(i, root) ==
    [j \in 1..Len(Glob(root, "live").files) |->
        [root |-> i, schema |-> "live", index |-> j]]
    \o [j \in 1..Len(Glob(root, "editing").files) |->
        [root |-> i, schema |-> "editing", index |-> j]]

----------------------------------------------------------------------------
(* discover_vscode_copilot_data: the merge across the roots *)

\* one turn of "for key, value in data.metadata.items()"
MergeItem_Overwrite(metadata, key, value, basename) ==
    IF key \in Keys(metadata)
    THEN IF Lookup(metadata, key).list /\ value.list
         THEN SetItem(metadata, key,
                      ListOf(Lookup(metadata, key).elems \o value.elems))
         ELSE SetItem(metadata, key, value)
    ELSE SetItem(metadata, key, value)

MergeItem(metadata, key, value, basename) ==
    IF key \in Keys(metadata)
    THEN IF Lookup(metadata, key).list /\ value.list
         THEN SetItem(metadata, key,
                      ListOf(Lookup(metadata, key).elems \o value.elems))
         ELSE SetItem(metadata, key \o "_" \o basename, value)
    ELSE SetItem(metadata, key, value)

RECURSIVE MergeMetadata(_, _, _)
MergeMetadata(metadata, items, basename) ==
    IF items = <<>> THEN metadata
    ELSE MergeMetadata(
            MergeItem(metadata, Head(items).key, Head(items).value, basename),
            Tail(items), basename)

\* "if data.chat_sessions:" -- only a root with sessions is merged
RootContributes(data) == data.chat_sessions # <<>>

\* a merge that keeps the path of the first root that contributed
MergeRoot_KeepFirstPath(acc, root, data) ==
    [acc EXCEPT
        !.chat_sessions = acc.chat_sessions \o data.chat_sessions,
        !.workspace_path = IF acc.workspace_path = None THEN root.path
                           ELSE acc.workspace_path,
        !.metadata = MergeMetadata(acc.metadata, data.metadata, root.name)]

\* the body of "if data.chat_sessions:"
MergeRoot(acc, root, data) ==
    [acc EXCEPT
        !.chat_sessions = acc.chat_sessions \o data.chat_sessions,
        !.workspace_path = root.path,
        !.metadata = MergeMetadata(acc.metadata, data.metadata, root.name)]

----------------------------------------------------------------------------
(* The file system of a run *)

\* the two storage roots of the platform; both have the base name User
NumRoots == 2

RootPath(i) == IF i = 1 THEN "Code/User" ELSE "Code - Insiders/User"

RootName(i) == "User"

Root(i, exists, live, editing) ==
    [path |-> RootPath(i), name |-> RootName(i), exists |-> exists,
     live |-> live, editing |-> editing]

FileCount(root) == Len(root.live) + Len(root.editing)

\* session files as discovery meets them: unreadable, not JSON, JSON but no
\* mapping, and sessions that share one session id, one with an aware
\* timestamp and one with the naive modification time
DiscoveredLiveFiles ==
    {BrokenLive("missing", "dict"), BrokenLive("badjson", "dict"),
     BrokenLive("ok", "list"),
     LiveFile("ok", "dict", "stem", 1, IdStr("a"),
              JStr(<<Tok("dt", 2), Tok("Z", 0)>>),
              ListField("list", <<SampleRequest>>)),
     LiveFile("ok", "dict", "stem", 1, IdStr("a"), JAbsent,
              ListField("list", <<>>))}

DiscoveredEditingFiles ==
    {BrokenEditing("badjson", "dict"),
     EditingFile("ok", "dict", 1, IdStr("a"),
                 ListField("list", <<SampleEntry>>),
                 Snapshot("absent", 0, CountField("absent", 0))),
     EditingFile("ok", "dict", 2, IdAbsent, ListField("absent", <<>>),
                 Snapshot("absent", 0, CountField("absent", 0)))}

\* the states of root i with at most k files; a root that does not exist
\* has none
RootStates(i, k) ==
    {Root(i, FALSE, <<>>, <<>>)}
    \cup UNION {{Root(i, TRUE, l, e) :
                    e \in SeqsUpTo(DiscoveredEditingFiles, k - Len(l))} :
                l \in SeqsUpTo(DiscoveredLiveFiles, k)}

FileSystems ==
    UNION {{<<r1, r2>> : r2 \in RootStates(2, MaxFiles - FileCount(r1))} :
           r1 \in RootStates(1, MaxFiles)}


----------------------------------------------------------------------------
(* The query engine, as far as the commands depend on it *)

\* every timestamp get_chat_statistics collects: each session's, then its
\* messages'
RECURSIVE AllTimestamps(_)
AllTimestamps(sessions) ==
    IF sessions = <<>> THEN <<>>
    ELSE <<Head(sessions).timestamp>>
            \o [j \in 1..Len(Head(sessions).messages) |->
                    Head(sessions).messages[j].timestamp]
            \o AllTimestamps(Tail(sessions))

\* min() / max() over datetimes raise a TypeError when an aware and a naive
\* datetime are compared
StatisticsRaises(data) ==
    LET all == AllTimestamps(data.chat_sessions)
    IN  /\ \E j \in 1..Len(all) : all[j].aware
        /\ \E j \in 1..Len(all) : ~all[j].aware

\* str.lower(), piece by piece
LowerPiece(x) ==
    CASE x = "HI" -> "hi"
      [] x = "Hi" -> "hi"
      [] x = "S" -> "s"
      [] x = "A" -> "a"
      [] x = "B" -> "b"
      [] OTHER -> x

\* a lower() that leaves the text as it is
Lower_AsStored(text) == text

Lower(text) == [j \in 1..Len(text) |-> LowerPiece(text[j])]

\* the offsets at which the query occurs in the content
Occurrences(content, query) ==
    {p \in 0..(Len(content) - Len(query)) :
        SubSeq(content, p + 1, p + Len(query)) = query}

\* str.rfind: the last occurrence
Find_Last(content, query) ==
    CHOOSE p \in Occurrences(content, query) :
        \A q \in Occurrences(content, query) : p >= q

\* str.find: the first occurrence
Find(content, query) ==
    CHOOSE p \in Occurrences(content, query) :
        \A q \in Occurrences(content, query) : p <= q

\* the characters of context kept before the match and after it
ContextChars == 100

Min(a, b) == IF a <= b THEN a ELSE b
Max(a, b) == IF a >= b THEN a ELSE b

\* the result records of one session's messages
RECURSIVE SearchMessages(_, _, _, _)
SearchMessages(session_id, messages, query, case_sensitive) ==
    IF messages = <<>> THEN <<>>
    ELSE LET message == Head(messages)
             search_query == IF case_sensitive THEN query ELSE Lower(query)
             content == IF case_sensitive THEN message.content
                        ELSE Lower(message.content)
             match_pos == Find(content, search_query)
             context_start == Max(0, match_pos - ContextChars)
             context_end == Min(Len(content),
                                match_pos + Len(search_query) + ContextChars)
         IN  (IF Occurrences(content, search_query) # {}
              THEN <<[session_id |-> session_id,
                      message_id |-> message.id,
                      role |-> message.role,
                      timestamp |-> isoformat(message.timestamp),
                      match_position |-> match_pos,
                      context |-> SubSeq(content, context_start + 1,
                                         context_end),
                      full_content |-> message.content,
                      metadata |-> message.metadata]>>
              ELSE <<>>)
             \o SearchMessages(session_id, Tail(messages), query,
                               case_sensitive)

RECURSIVE SearchSessions(_, _, _)
SearchSessions(sessions, query, case_sensitive) ==
    IF sessions = <<>> THEN <<>>
    ELSE SearchMessages(Head(sessions).session_id, Head(sessions).messages,
                        query, case_sensitive)
            \o SearchSessions(Tail(sessions), query, case_sensitive)

search_chat_content(workspace_data, query, case_sensitive) ==
    SearchSessions(workspace_data.chat_sessions, query, case_sensitive)

\* the queries a command is given
Queries == {<<"hi">>, <<"HI">>, <<"zz">>}


----------------------------------------------------------------------------
(* One run: discover_vscode_copilot_data, then the command that called it *)
(*                                                                         *)
(* pc is "discover" while the loop over the roots runs (root_i the next    *)
(* root), "returned" when discover_vscode_copilot_data has returned,       *)
(* "aborted" when an exception left it, "exited" when the command is done. *)
(* Discovery takes no argument of the command, so the run fixes which      *)
(* command it is (cmd) when the command's own part begins.                 *)

ParseIdle ==
    /\ file = BrokenLive("missing", "dict")
    /\ result = ReturnedNone
    /\ ppc = "idle"

\* all_data = WorkspaceData(agent="GitHub Copilot")
Init ==
    /\ fs \in FileSystems
    /\ cmd = "none"
    /\ pc = "discover"
    /\ root_i = 1
    /\ all_data = WorkspaceData("GitHub Copilot", None, <<>>, <<>>)
    /\ exit_code = 0
    /\ console = <<>>
    /\ parse_count = <<>>
    /\ ParseIdle /\ MergeIdle /\ RoundTripIdle /\ QueryIdle /\ ExportIdle

\* one turn of "for base_path in vscode_paths"
VisitRoot ==
    /\ pc = "discover"
    /\ root_i <= NumRoots
    /\ LET root == fs[root_i]
           found == discover_copilot_data(root)
       IN  IF ~root.exists
           THEN UNCHANGED <<pc, all_data, parse_count>>
           ELSE /\ parse_count' = parse_count \o ParsedBy(root_i, root)
                /\ pc' = IF found.raised THEN "aborted" ELSE pc
                /\ all_data' =
                      IF ~found.raised /\ RootContributes(found.data)
                      THEN MergeRoot(all_data, root, found.data)
                      ELSE all_data
    /\ root_i' = root_i + 1
    /\ UNCHANGED <<fs, cmd, exit_code, console>>
    /\ UNCHANGED <<parseVars, mergeVars, rtVars, queryVars, exportVars>>

\* "return all_data"
ReturnAllData ==
    /\ pc = "discover"
    /\ root_i > NumRoots
    /\ pc' = "returned"
    /\ UNCHANGED <<fs, cmd, root_i, all_data, exit_code, console, parse_count>>
    /\ UNCHANGED <<parseVars, mergeVars, rtVars, queryVars, exportVars>>

\* discover_copilot_data called on one root by itself, whether or not the
\* root exists
CallDiscoverCopilotData ==
    /\ pc = "discover"
    /\ root_i = 1
    /\ parse_count = <<>>
    /\ \E i \in 1..NumRoots :
          LET found == discover_copilot_data(fs[i])
          IN  /\ root_i' = i
              /\ parse_count' = ParsedBy(i, fs[i])
              /\ pc' = IF found.raised THEN "aborted" ELSE "returned_root"
              /\ all_data' = IF found.raised THEN all_data ELSE found.data
    /\ cmd' = "discover_copilot_data"
    /\ UNCHANGED <<fs, exit_code, console>>
    /\ UNCHANGED <<parseVars, mergeVars, rtVars, queryVars, exportVars>>

\* the end of a command: what it printed and its exit status (typer.Exit(1)
\* gives 1, a plain return 0)
Exits(name, lines, code) ==
    /\ pc' = "exited"
    /\ cmd' = name
    /\ console' = lines
    /\ exit_code' = code
    /\ UNCHANGED <<fs, root_i, all_data, parse_count>>
    /\ UNCHANGED <<parseVars, mergeVars, rtVars, queryVars, exportVars>>

\* --format, when --output is given ("xml" stands for any format that is
\* not supported)
Formats == {"json", "md", "csv", "parquet", "xml"}

\* the chat command.  typer.Exit is an Exception (click's Exit derives from
\* RuntimeError), so the Exit(1) raised inside the try block is caught by
\* "except Exception", reported, and raised again.  The exporters are taken
\* to write their file.
ChatCommand ==
    /\ pc \in {"returned", "aborted"}
    /\ cmd = "none"
    /\ \E verbose \in BOOLEAN, export \in {"none"} \cup Formats,
          search \in {<<>>, <<"hi">>} :
          LET output == export # "none"
              format == export
              started == IF verbose
                         THEN <<"Discovering GitHub Copilot chat data...">>
                         ELSE <<>>
              failed == IF verbose THEN <<"Traceback">>
                        ELSE <<"Error extracting chat data">>
              searched == IF search # <<>>
                          THEN <<"Found matches for query">> ELSE <<>>
          IN  IF pc = "aborted"
              THEN Exits("chat", started \o failed, 1)
              ELSE IF all_data.chat_sessions = <<>> /\ all_data.metadata = <<>>
              THEN Exits("chat",
                         started \o <<"No GitHub Copilot chat data found",
                                      "Make sure VS Code is installed">>
                            \o failed, 1)
              ELSE IF StatisticsRaises(all_data)
              THEN Exits("chat",
                         started \o <<"Found chat sessions">> \o failed, 1)
              ELSE IF output /\ format = "xml"
              THEN Exits("chat",
                         started \o <<"Found chat sessions">> \o searched
                            \o <<"Unsupported format",
                                 "Supported formats">> \o failed, 1)
              ELSE IF output
              THEN Exits("chat",
                         started \o <<"Found chat sessions">> \o searched
                            \o <<"Chat data saved">>, 0)
              ELSE Exits("chat",
                         started \o <<"Found chat sessions">> \o searched
                            \o <<"Chat History Summary">>, 0)

\* the stats command
StatsCommand ==
    /\ pc \in {"returned", "aborted"}
    /\ cmd = "none"
    /\ IF pc = "aborted"
       THEN Exits("stats", <<"Error getting statistics">>, 1)
       ELSE IF all_data.chat_sessions = <<>>
       THEN Exits("stats", <<"No chat sessions found">>, 0)
       ELSE IF StatisticsRaises(all_data)
       THEN Exits("stats", <<"Error getting statistics">>, 1)
       ELSE Exits("stats", <<"GitHub Copilot Chat Statistics">>, 0)

\* the search command
SearchCommand ==
    /\ pc \in {"returned", "aborted"}
    /\ cmd = "none"
    /\ \E query \in Queries, case_sensitive \in BOOLEAN :
          IF pc = "aborted"
          THEN Exits("search", <<"Error searching">>, 1)
          ELSE IF all_data.chat_sessions = <<>>
          THEN Exits("search", <<"No chat sessions found">>, 0)
          ELSE IF search_chat_content(all_data, query, case_sensitive) = <<>>
          THEN Exits("search", <<"No matches found">>, 0)
          ELSE Exits("search", <<"Found matches">>, 0)

Next ==
    \/ VisitRoot
    \/ ReturnAllData
    \/ CallDiscoverCopilotData
    \/ ChatCommand
    \/ StatsCommand
    \/ SearchCommand

Spec == Init /\ [][Next]_vars


----------------------------------------------------------------------------
(* Claims about discovery *)

\* the files the two patterns match under root i, in glob order
Matched(i) == IF fs[i].exists THEN fs[i].live \o fs[i].editing ELSE <<>>

RECURSIVE MatchedFrom(_)
MatchedFrom(i) ==
    IF i > NumRoots THEN <<>> ELSE Matched(i) \o MatchedFrom(i + 1)

\* the file can be read as a session: the body of its adapter does not fail
Parsable(f) ==
    IF f.schema = "live" THEN ~LiveBodyRaises(f) ELSE ~EditingBodyRaises(f)

SessionOf(f) == IF f.schema = "live" THEN LiveBody(f) ELSE EditingBody(f)

Holds(sessions, session) ==
    \E k \in 1..Len(sessions) : sessions[k] = session

\* discover_vscode_copilot_data has returned (and its command may be done)
DiscoveryDone == pc \in {"returned", "exited"}

\* C3: no file makes an adapter raise or aborts a discovery run: for every
\* matched file the adapter returns a session or None, the run never ends
\* in an exception, and the sessions of all files that can be parsed are
\* collected, whatever other files are matched.
C3_MalformedFileNeverAborts ==
    /\ pc # "aborted"
    /\ \A i \in 1..NumRoots : \A j \in 1..Len(Matched(i)) :
          ParseFile(Matched(i)[j]).kind \in {"session", "none"}
    /\ DiscoveryDone =>
          \A i \in 1..NumRoots : \A j \in 1..Len(Matched(i)) :
             Parsable(Matched(i)[j]) =>
                Holds(all_data.chat_sessions, SessionOf(Matched(i)[j]))
    /\ pc = "returned_root" =>
          \A j \in 1..Len(Matched(root_i)) :
             Parsable(Matched(root_i)[j]) =>
                Holds(all_data.chat_sessions, SessionOf(Matched(root_i)[j]))

\* a run is over in which one pattern matched a broken file and then a
\* good one
C3_Witness ==
    /\ pc = "returned"
    /\ \E i \in 1..NumRoots :
          /\ Len(fs[i].live) = 2
          /\ ~Parsable(fs[i].live[1])
          /\ Parsable(fs[i].live[2])
    /\ all_data.chat_sessions # <<>>

\* the sessions of the files that parse, in the order of the files
SessionsOf(files) ==
    LET good == SelectSeq(files, LAMBDA f : ParseFile(f).kind = "session")
    IN  [j \in 1..Len(good) |-> ParseFile(good[j]).session]

CountWithId(sessions, id) ==
    Cardinality({k \in 1..Len(sessions) : sessions[k].session_id = id})

\* C4: after a discovery run chat_sessions is the concatenation, in root
\* order, of each root's sessions, the live-session results before the
\* editing-session results; it has one entry per file whose parse returned
\* a session, every matched file is parsed exactly once, and files with the
\* same session_id give as many entries as there are files.
C4_FlatAccumulation ==
    DiscoveryDone =>
       /\ all_data.chat_sessions = SessionsOf(MatchedFrom(1))
       /\ Len(all_data.chat_sessions)
             = Cardinality({j \in 1..Len(MatchedFrom(1)) :
                   ParseFile(MatchedFrom(1)[j]).kind = "session"})
       /\ Len(parse_count) = Len(MatchedFrom(1))
       /\ \A i \in 1..NumRoots : \A j \in 1..Len(Matched(i)) :
             Cardinality({k \in 1..Len(parse_count) :
                 parse_count[k] =
                    IF j <= Len(fs[i].live)
                    THEN [root |-> i, schema |-> "live", index |-> j]
                    ELSE [root |-> i, schema |-> "editing",
                          index |-> j - Len(fs[i].live)]}) = 1
       /\ \A id \in {"a", "", "stem"} :
             CountWithId(all_data.chat_sessions, id)
                = CountWithId(SessionsOf(MatchedFrom(1)), id)

\* both roots gave sessions, the first a live and an editing session, and
\* three entries share one session_id
C4_Witness ==
    /\ pc = "returned"
    /\ Len(SessionsOf(fs[1].live)) = 1
    /\ Len(SessionsOf(fs[1].editing)) = 1
    /\ Len(SessionsOf(Matched(2))) = 1
    /\ Len(all_data.chat_sessions) = 3
    /\ all_data.chat_sessions[1].metadata.type = "chat_session"
    /\ all_data.chat_sessions[2].metadata.type = "chat_editing_session"
    /\ CountWithId(all_data.chat_sessions, "a") = 3

\* the outcome of the loop of discover_vscode_copilot_data over roots that
\* all exist
RECURSIVE DiscoverOver(_, _)
DiscoverOver(acc, roots) ==
    IF roots = <<>> THEN acc
    ELSE LET data == discover_copilot_data(Head(roots)).data
         IN  DiscoverOver(IF data.chat_sessions # <<>>
                          THEN MergeRoot(acc, Head(roots), data) ELSE acc,
                          Tail(roots))

\* C7: discover_copilot_data on a root that does not exist returns a
\* WorkspaceData without sessions and does not raise; in the run over all
\* roots such a root is skipped: sessions, workspace_path and metadata are
\* those of the run over the roots that exist.
C7_MissingRootIsSkipped ==
    /\ (cmd = "discover_copilot_data" /\ ~fs[root_i].exists) =>
          /\ pc = "returned_root"
          /\ all_data.chat_sessions = <<>>
    /\ DiscoveryDone =>
          all_data = DiscoverOver(
                        WorkspaceData("GitHub Copilot", None, <<>>, <<>>),
                        SelectSeq(fs, LAMBDA r : r.exists))

\* discover_copilot_data was called on a root that does not exist, while
\* the other root holds a session
C7_Witness ==
    /\ cmd = "discover_copilot_data"
    /\ ~fs[root_i].exists
    /\ pc = "returned_root"
    /\ \E i \in 1..NumRoots : SessionsOf(Matched(i)) # <<>>

\* the discovery_source entry single-root discovery makes for root i
HoldsDiscoverySource(metadata, i) ==
    \E j \in 1..Len(metadata) :
       /\ metadata[j].key \in {"discovery_source",
                               "discovery_source_" \o fs[i].name}
       /\ metadata[j].value = Scalar(fs[i].path)

\* C8: when no root yields a session, the WorkspaceData that
\* discover_vscode_copilot_data returns has no sessions and its metadata
\* holds the discovery_source entry of each existing root that was scanned.
C8_EmptyRunKeepsRootMetadata ==
    (pc = "returned" /\ all_data.chat_sessions = <<>>) =>
       \A i \in 1..NumRoots :
          fs[i].exists => HoldsDiscoverySource(all_data.metadata, i)

ErrorLines ==
    {"Error extracting chat data", "Traceback", "Error getting statistics",
     "Error searching"}

\* C9: when discovery finds no session in any root, each of the commands
\* chat, stats and search ends with exit status 0 and reports no error.
C9_ZeroSessionsIsNotAFailure ==
    (pc = "exited" /\ all_data.chat_sessions = <<>>) =>
       /\ exit_code = 0
       /\ \A j \in 1..Len(console) : console[j] \notin ErrorLines


----------------------------------------------------------------------------
(* The metadata merge on any metadata                                      *)
(*                                                                         *)
(* discover_copilot_data only ever makes the metadata {discovery_source:   *)
(* path}; the merge loop is written for any mapping, and is run here on    *)
(* mappings with scalar and list values.  m_init is the accumulator before *)
(* the merge, m_items the incoming metadata, m_i the next item of the      *)
(* loop, m_prev the accumulator before the last turn, m_round counts the   *)
(* merges of the same metadata (one root's metadata merged twice).         *)

MetadataKeys == {"a", "b", "a_User"}

MetadataValues ==
    {Scalar("x"), Scalar("y"), ListOf(<<"p">>), ListOf(<<"p", "q">>)}

\* the dicts with at most n of the keys, in any insertion order
DictsUpTo(n) ==
    {d \in SeqsUpTo({Item(k, v) : k \in MetadataKeys, v \in MetadataValues}, n) :
        \A i, j \in 1..Len(d) : i # j => d[i].key # d[j].key}

\* accumulators: any subset of the keys, in one insertion order
Accumulators ==
    {SelectSeq(<<Item("a", f["a"]), Item("b", f["b"]),
                 Item("a_User", f["a_User"])>>,
               LAMBDA it : it.value # Scalar("")) :
        f \in [MetadataKeys -> MetadataValues \cup {Scalar("")}]}

MergeInit ==
    /\ m_init \in Accumulators
    /\ m_acc = m_init
    /\ m_prev = m_init
    /\ m_items \in DictsUpTo(MaxKeys)
    /\ m_base = "User"
    /\ m_i = 1
    /\ m_round = 1
    /\ ParseIdle /\ CliIdle /\ RoundTripIdle /\ QueryIdle /\ ExportIdle

\* one turn of "for key, value in data.metadata.items()"
MergeStep ==
    /\ m_i <= Len(m_items)
    /\ m_prev' = m_acc
    /\ m_acc' = MergeItem(m_acc, m_items[m_i].key, m_items[m_i].value, m_base)
    /\ m_i' = m_i + 1
    /\ UNCHANGED <<m_init, m_items, m_base, m_round>>
    /\ UNCHANGED <<parseVars, cliVars, rtVars, queryVars, exportVars>>

\* the same metadata is merged once more
MergeAgain ==
    /\ m_i > Len(m_items)
    /\ m_round = 1
    /\ m_round' = 2
    /\ m_i' = 1
    /\ m_prev' = m_acc
    /\ UNCHANGED <<m_init, m_acc, m_items, m_base>>
    /\ UNCHANGED <<parseVars, cliVars, rtVars, queryVars, exportVars>>

MergeNext ==
    \/ MergeStep
    \/ MergeAgain

MergeSpec == MergeInit /\ [][MergeNext]_vars

----------------------------------------------------------------------------
(* Claims about the metadata merge *)

\* the item the last turn of the loop merged
Merged == m_items[m_i - 1]

BothLists(metadata, item) ==
    /\ item.key \in Keys(metadata)
    /\ Lookup(metadata, item.key).list
    /\ item.value.list

\* C5: on a conflict -- the incoming key is in the accumulator and the two
\* values are not both lists -- the value under the key stays as it was and
\* the incoming value is stored under '<key>_<root_basename>'; a key new to
\* the accumulator is copied as it is.
C5_ConflictKeepsBothValues ==
    m_i > 1 =>
       /\ (Merged.key \in Keys(m_prev) /\ ~BothLists(m_prev, Merged)) =>
             /\ Merged.key \in Keys(m_acc)
             /\ Lookup(m_acc, Merged.key) = Lookup(m_prev, Merged.key)
             /\ (Merged.key \o "_" \o m_base) \in Keys(m_acc)
             /\ Lookup(m_acc, Merged.key \o "_" \o m_base) = Merged.value
       /\ Merged.key \notin Keys(m_prev) =>
             /\ Merged.key \in Keys(m_acc)
             /\ Lookup(m_acc, Merged.key) = Merged.value

\* a scalar met a list under one key, and both are kept
C5_Witness ==
    /\ m_i > 1
    /\ Merged.key = "a"
    /\ "a" \in Keys(m_prev)
    /\ ~Lookup(m_prev, "a").list
    /\ Merged.value.list
    /\ "a_User" \notin Keys(m_prev)
    /\ Lookup(m_acc, "a_User") = Merged.value

----------------------------------------------------------------------------
(* to_dict and from_dict (models.py)                                       *)
(*                                                                         *)
(* A mapping is a record of tagged fields, so that a key can be absent or  *)
(* hold null.  The content of a message is a text in every mapping here.   *)

\* a value that is None or a string, as the field of a mapping
ToField(x) == IF x = None THEN IdNull ELSE IdStr(x)

\* the 'metadata' field of a mapping
MetaAbsent == [t |-> "absent", v |-> <<>>]
MetaField(metadata) == [t |-> "set", v |-> metadata]
\* data.get('metadata', {})
GetMeta(f) == IF f.t = "absent" THEN <<>> ELSE f.v

\* dateutil.parser.parse on a timestamp string: [ok, dt].  It reads
\* dt[.frac] followed by nothing, by an offset or by Z (UTC); on any other
\* text it raises ParserError.
dateutil_parse(toks) ==
    LET n == Len(toks)
        hasFrac == n >= 2 /\ toks[2].k = "frac"
        zoneAt == IF hasFrac THEN 3 ELSE 2
        hasZone == n = zoneAt /\ toks[zoneAt].k \in {"off", "Z"}
        wellformed ==
            /\ n >= 1
            /\ toks[1].k = "dt"
            /\ n = (IF hasFrac THEN 2 ELSE 1) \/ hasZone
    IN  IF wellformed
        THEN [ok |-> TRUE,
              dt |-> DateTime(toks[1].v,
                              IF hasFrac THEN toks[2].v ELSE 0,
                              hasZone,
                              IF hasZone /\ toks[zoneAt].k = "off"
                              THEN toks[zoneAt].v ELSE 0)]
        ELSE [ok |-> FALSE, dt |-> NoTime]

\* the timestamp of from_dict: a string is parsed (and the parse may
\* raise), an absent or null one is datetime.now(), any other value is
\* kept as it is
TimestampFromDict(f, now) ==
    IF f.t = "str"
    THEN [raised |-> ~dateutil_parse(f.s).ok, value |-> dateutil_parse(f.s).dt]
    ELSE IF f.t \in {"absent", "null"}
    THEN [raised |-> FALSE, value |-> now]
    ELSE [raised |-> FALSE, value |-> f]

Message_to_dict(m) ==
    [id |-> ToField(m.id),
     role |-> IdStr(m.role),
     content |-> JStr(m.content),
     timestamp |-> JStr(isoformat(m.timestamp)),
     metadata |-> MetaField(m.metadata)]

Message_from_dict(data, now) ==
    [raised |-> TimestampFromDict(data.timestamp, now).raised,
     value |->
        [id |-> GetId(data.id),
         role |-> GetIdOr(data.role, "user"),
         content |-> Get(data.content, JStr(<<>>)).s,
         timestamp |-> TimestampFromDict(data.timestamp, now).value,
         metadata |-> GetMeta(data.metadata)]]

ChatSession_to_dict(s) ==
    [agent |-> IdStr(s.agent),
     timestamp |-> JStr(isoformat(s.timestamp)),
     messages |-> ListField("list",
                     [j \in 1..Len(s.messages) |->
                         Message_to_dict(s.messages[j])]),
     workspace |-> ToField(s.workspace),
     session_id |-> ToField(s.session_id),
     metadata |-> MetaField(s.metadata)]

\* data.get('messages', []): a null one is not iterable
MessagesRaise(f, now) ==
    \/ f.t = "null"
    \/ /\ f.t = "list"
       /\ \E j \in 1..Len(f.items) : Message_from_dict(f.items[j], now).raised

MessagesFromDict(f, now) ==
    IF f.t = "list"
    THEN [j \in 1..Len(f.items) |-> Message_from_dict(f.items[j], now).value]
    ELSE <<>>

ChatSession_from_dict(data, now) ==
    [raised |-> \/ TimestampFromDict(data.timestamp, now).raised
                \/ MessagesRaise(data.messages, now),
     value |->
        [agent |-> GetIdOr(data.agent, "unknown"),
         timestamp |-> TimestampFromDict(data.timestamp, now).value,
         messages |-> MessagesFromDict(data.messages, now),
         workspace |-> GetId(data.workspace),
         session_id |-> GetId(data.session_id),
         metadata |-> GetMeta(data.metadata)]]

WorkspaceData_to_dict(w) ==
    [agent |-> IdStr(w.agent),
     version |-> ToField(w.version),
     workspace_path |-> ToField(w.workspace_path),
     chat_sessions |-> ListField("list",
                          [i \in 1..Len(w.chat_sessions) |->
                              ChatSession_to_dict(w.chat_sessions[i])]),
     metadata |-> MetaField(w.metadata)]

\* "if 'chat_sessions' in data": a null one is not iterable
SessionsRaise(f, now) ==
    \/ f.t = "null"
    \/ /\ f.t = "list"
       /\ \E i \in 1..Len(f.items) :
             ChatSession_from_dict(f.items[i], now).raised

SessionsFromDict(f, now) ==
    IF f.t = "list"
    THEN [i \in 1..Len(f.items) |->
             ChatSession_from_dict(f.items[i], now).value]
    ELSE <<>>

WorkspaceData_from_dict(data, now) ==
    [raised |-> SessionsRaise(data.chat_sessions, now),
     value |->
        [agent |-> GetIdOr(data.agent, "unknown"),
         version |-> GetId(data.version),
         workspace_path |-> GetId(data.workspace_path),
         chat_sessions |-> SessionsFromDict(data.chat_sessions, now),
         metadata |-> GetMeta(data.metadata)]]

\* datetime == datetime: two naive ones by their fields, two aware ones by
\* their instant, a naive and an aware one are never equal
DatetimeEq(a, b) ==
    /\ a.aware = b.aware
    /\ a.us = b.us
    /\ IF a.aware
       THEN a.secs - 60 * a.off = b.secs - 60 * b.off
       ELSE a.secs = b.secs


----------------------------------------------------------------------------
(* The round trip WorkspaceData.from_dict(W.to_dict()) *)

\* timestamps: with and without microseconds, naive, UTC, east and west
RoundTripTimes ==
    {DateTime(secs, us, zone.aware, zone.off) :
        secs \in Times, us \in {0, 5},
        zone \in {[aware |-> FALSE, off |-> 0], [aware |-> TRUE, off |-> 0],
                  [aware |-> TRUE, off |-> 60],
                  [aware |-> TRUE, off |-> 0 - 300]}}

\* every kind of message, alone in its session
VariedMessages ==
    {Message(role, content, timestamp, id, "user_request") :
        role \in {"user", "assistant"}, content \in {<<>>, <<"hi">>},
        timestamp \in RoundTripTimes, id \in {None, "r1"}}

CoreMessages ==
    {Message("user", <<"hi">>, DateTime(1, 0, FALSE, 0), "r1", "user_request"),
     Message("assistant", <<"v">>, DateTime(1, 5, TRUE, 60), None,
             "assistant_response")}

CoreTimes == {DateTime(1, 0, FALSE, 0), DateTime(2, 5, TRUE, 0 - 300)}

RoundTripSessions ==
    {ChatSession(timestamp, messages, "a", "chat_session") :
        timestamp \in CoreTimes,
        messages \in SeqsUpTo(CoreMessages, MaxMessages)}

Workspaces ==
    {WorkspaceData("GitHub Copilot", None,
                   <<ChatSession(timestamp, <<m>>, None, "chat_session")>>,
                   <<>>) :
        timestamp \in CoreTimes, m \in VariedMessages}
    \cup {WorkspaceData("GitHub Copilot", None,
                        <<ChatSession(timestamp, <<>>, "a", "chat_session")>>,
                        <<>>) :
             timestamp \in RoundTripTimes}
    \cup {WorkspaceData("GitHub Copilot", RootPath(1), sessions,
                        <<Item("discovery_source", Scalar(RootPath(1)))>>) :
             sessions \in SeqsUpTo(RoundTripSessions, MaxSessions)}

RoundTripInit ==
    /\ w_in \in Workspaces
    /\ w_dict = <<>>
    /\ w_out = <<>>
    /\ rpc = "start"
    /\ ParseIdle /\ CliIdle /\ MergeIdle /\ QueryIdle /\ ExportIdle

\* W.to_dict()
CallToDict ==
    /\ rpc = "start"
    /\ w_dict' = WorkspaceData_to_dict(w_in)
    /\ rpc' = "dict"
    /\ UNCHANGED <<w_in, w_out>>
    /\ UNCHANGED <<parseVars, cliVars, mergeVars, queryVars, exportVars>>

\* WorkspaceData.from_dict(d), at any reading of the clock
CallFromDict ==
    /\ rpc = "dict"
    /\ \E now \in Times :
          w_out' = WorkspaceData_from_dict(w_dict, fromtimestamp(now))
    /\ rpc' = "done"
    /\ UNCHANGED <<w_in, w_dict>>
    /\ UNCHANGED <<parseVars, cliVars, mergeVars, queryVars, exportVars>>

RoundTripNext ==
    \/ CallToDict
    \/ CallFromDict

RoundTripSpec == RoundTripInit /\ [][RoundTripNext]_vars

\* C10: from_dict(W.to_dict()) has as many sessions as W, in each session
\* as many messages in the same order, every message with the same content
\* and role, and every session and message timestamp equal to the
\* microsecond.
C10_RoundTrip ==
    rpc = "done" =>
       /\ ~w_out.raised
       /\ Len(w_out.value.chat_sessions) = Len(w_in.chat_sessions)
       /\ \A i \in 1..Len(w_in.chat_sessions) :
             LET a == w_in.chat_sessions[i]
                 b == w_out.value.chat_sessions[i]
             IN  /\ DatetimeEq(b.timestamp, a.timestamp)
                 /\ Len(b.messages) = Len(a.messages)
                 /\ \A j \in 1..Len(a.messages) :
                       /\ b.messages[j].content = a.messages[j].content
                       /\ b.messages[j].role = a.messages[j].role
                       /\ DatetimeEq(b.messages[j].timestamp,
                                     a.messages[j].timestamp)

\* two sessions went round, one of them with two messages, one message
\* with microseconds and an offset
C10_Witness ==
    /\ rpc = "done"
    /\ Len(w_in.chat_sessions) = 2
    /\ Len(w_out.value.chat_sessions) = 2
    /\ Len(w_in.chat_sessions[1].messages) = 2
    /\ w_in.chat_sessions[1].messages[2].timestamp = DateTime(1, 5, TRUE, 60)
    /\ w_out.value.chat_sessions[1].messages[2].timestamp
          = DateTime(1, 5, TRUE, 60)
    /\ w_in.chat_sessions[2].timestamp = DateTime(2, 5, TRUE, 0 - 300)


----------------------------------------------------------------------------
(* from_dict on any mapping *)

\* the 'timestamp' of a mapping: absent, null, an ISO string, a string that
\* is no timestamp, an epoch number, a list
TimestampFields ==
    {JAbsent, JNull, JStr(<<Tok("dt", 1), Tok("frac", 5), Tok("Z", 0)>>),
     JStr(<<Tok("junk", 0)>>), JNum(1), JList(1)}

MessageMappings ==
    {[id |-> IdAbsent, role |-> role, content |-> content,
      timestamp |-> timestamp, metadata |-> MetaAbsent] :
        role \in {IdAbsent, IdStr("assistant")},
        content \in {JAbsent, JStr(<<"hi">>)},
        timestamp \in TimestampFields}

SessionMappings ==
    {[agent |-> agent, timestamp |-> timestamp, messages |-> messages,
      workspace |-> IdAbsent, session_id |-> IdAbsent,
      metadata |-> MetaAbsent] :
        agent \in {IdAbsent, IdStr("GitHub Copilot")},
        timestamp \in TimestampFields,
        messages \in {ListField("absent", <<>>), ListField("null", <<>>),
                      ListField("list", <<>>)}
                     \cup {ListField("list", <<m>>) : m \in MessageMappings}}

WorkspaceMappings ==
    {[agent |-> agent, version |-> IdAbsent, workspace_path |-> IdAbsent,
      chat_sessions |-> chat_sessions, metadata |-> MetaAbsent] :
        agent \in {IdAbsent, IdStr("GitHub Copilot")},
        chat_sessions \in {ListField("absent", <<>>), ListField("null", <<>>)}
                          \cup {ListField("list", <<m>>) :
                                   m \in SessionMappings}}

FromDictInit ==
    /\ w_in = <<>>
    /\ w_dict \in WorkspaceMappings
    /\ w_out = <<>>
    /\ rpc = "dict"
    /\ ParseIdle /\ CliIdle /\ MergeIdle /\ QueryIdle /\ ExportIdle

FromDictNext == CallFromDict

FromDictSpec == FromDictInit /\ [][FromDictNext]_vars

\* a datetime, and not a value of another type
IsDatetime(x) == DOMAIN x = DOMAIN NoTime

\* the mappings of the sessions and of the messages of session i
SessionItems == w_dict.chat_sessions.items
MessageItems(i) == SessionItems[i].messages.items

\* C11: from_dict never fails, whatever the mapping: an absent role
\* becomes 'user', an absent agent 'unknown', an absent content '', and
\* every session and message of the result has a datetime as timestamp.
C11_FromDictDegradesToDefaults ==
    rpc = "done" =>
       /\ ~w_out.raised
       /\ w_dict.agent.t = "absent" => w_out.value.agent = "unknown"
       /\ \A i \in 1..Len(w_out.value.chat_sessions) :
             LET b == w_out.value.chat_sessions[i]
             IN  /\ SessionItems[i].agent.t = "absent" => b.agent = "unknown"
                 /\ IsDatetime(b.timestamp)
                 /\ \A j \in 1..Len(b.messages) :
                       /\ MessageItems(i)[j].role.t = "absent"
                             => b.messages[j].role = "user"
                       /\ MessageItems(i)[j].content.t = "absent"
                             => b.messages[j].content = <<>>
                       /\ IsDatetime(b.messages[j].timestamp)


----------------------------------------------------------------------------
(* One call of search_chat_content or of get_chat_statistics               *)
(*                                                                         *)
(* Here a text is a sequence of one-letter pieces, so that an offset into  *)
(* the sequence is an offset into the string.                              *)

\* n letters that take no part in any query
Pad(n) == [j \in 1..n |-> "x"]

Words ==
    {<<>>, <<"a">>, <<"a", "b">>, <<"A", "b">>, <<"A", "B">>,
     <<"b", "a", "b">>, <<"a", "b", "a", "b">>, <<"b", "A", "B", "a", "b">>}

\* contents with the match nearer to or farther from each end than the
\* context reaches
PaddedWords ==
    {Pad(n) \o w \o Pad(m) :
        n \in {0, ContextChars - 1, ContextChars, ContextChars + 1},
        m \in {0, ContextChars - 1, ContextChars, ContextChars + 1},
        w \in {<<"a", "b">>, <<"A", "b">>}}

SearchQueries == {<<"a", "b">>, <<"A", "b">>, <<"b">>, <<"z">>}

\* one session with one message, of every content
SearchWorkspaces ==
    {WorkspaceData("GitHub Copilot", None,
        <<ChatSession(DateTime(1, 0, FALSE, 0),
                      <<Message("user", content, DateTime(1, 0, FALSE, 0),
                                "r1", "user_request")>>,
                      "a", "chat_session")>>,
        <<>>) :
        content \in Words \cup PaddedWords}


\* a metadata mapping without the key 'type'
NoType == "<no type>"
\* metadata.get('type', default)
GetType(metadata, default) ==
    IF metadata.type = NoType THEN default ELSE metadata.type

\* table[key] = table.get(key, 0) + 1
Increment(table, key) ==
    SetItem(table, key,
            (IF key \in Keys(table) THEN Lookup(table, key) ELSE 0) + 1)

\* the frequency table of a sequence of keys, in first-seen order
RECURSIVE Tally(_, _)
Tally(table, keys) ==
    IF keys = <<>> THEN table
    ELSE Tally(Increment(table, Head(keys)), Tail(keys))

\* every message of every session, in traversal order
RECURSIVE AllMessages(_)
AllMessages(sessions) ==
    IF sessions = <<>> THEN <<>>
    ELSE Head(sessions).messages \o AllMessages(Tail(sessions))

\* datetime < datetime, for two datetimes that can be compared: naive ones
\* by their fields, aware ones by their instant
Earlier(a, b) ==
    LET ka == IF a.aware THEN a.secs - 60 * a.off ELSE a.secs
        kb == IF b.aware THEN b.secs - 60 * b.off ELSE b.secs
    IN  ka < kb \/ (ka = kb /\ a.us < b.us)

\* min(all_timestamps): the first of the smallest
EarliestTime(all) ==
    all[CHOOSE j \in 1..Len(all) :
           /\ \A k \in 1..Len(all) : ~Earlier(all[k], all[j])
           /\ \A k \in 1..(j - 1) : Earlier(all[j], all[k])]

\* max(all_timestamps): the first of the largest
LatestTime(all) ==
    all[CHOOSE j \in 1..Len(all) :
           /\ \A k \in 1..Len(all) : ~Earlier(all[j], all[k])
           /\ \A k \in 1..(j - 1) : Earlier(all[k], all[j])]

\* get_chat_statistics: [raised, value]
get_chat_statistics(workspace_data) ==
    LET sessions == workspace_data.chat_sessions
        messages == AllMessages(sessions)
        all_timestamps == AllTimestamps(sessions)
    IN  [raised |-> StatisticsRaises(workspace_data),
         value |->
            [total_sessions |-> Len(sessions),
             total_messages |-> Len(messages),
             message_types |->
                Tally(<<>>, [j \in 1..Len(messages) |->
                                GetType(messages[j].metadata,
                                        messages[j].role)]),
             session_types |->
                Tally(<<>>, [j \in 1..Len(sessions) |->
                                GetType(sessions[j].metadata, "unknown")]),
             date_range |->
                IF all_timestamps # <<>>
                THEN [earliest |-> JStr(isoformat(EarliestTime(all_timestamps))),
                      latest |-> JStr(isoformat(LatestTime(all_timestamps)))]
                ELSE [earliest |-> JNull, latest |-> JNull],
             agent_activity |->
                Tally(<<>>, [j \in 1..Len(sessions) |-> sessions[j].agent])]]


\* messages of a session: a typed user request and a typed response
QueryMessages ==
    {Message("user", <<"a", "b">>, DateTime(1, 0, FALSE, 0), "r1",
             "user_request"),
     Message("assistant", <<"b", "A", "B", "a", "b">>,
             DateTime(1, 0, FALSE, 0), "r2", "assistant_response")}

\* sessions as discovery returns them (a live one with its messages, an
\* editing one without messages, a live one whose creationDate ended in Z)
\* and one as from_dict builds it from a sparse mapping
QuerySessions ==
    {ChatSession(DateTime(1, 0, FALSE, 0), messages, "a", "chat_session") :
        messages \in SeqsUpTo(QueryMessages, MaxMessages)}
    \cup
    {ChatSession(DateTime(2, 0, FALSE, 0), <<>>, "e", "chat_editing_session"),
     ChatSession(DateTime(1, 5, TRUE, 0),
                 <<Message("user", <<"A", "b">>, DateTime(1, 5, TRUE, 0),
                           "r1", "user_request")>>,
                 "z", "chat_session"),
     [ChatSession(DateTime(2, 5, FALSE, 0),
                  <<Message("system", <<"a", "b", "a", "b">>,
                            DateTime(1, 5, FALSE, 0), None, NoType)>>,
                  None, NoType)
        EXCEPT !.agent = "unknown"]}

QueryWorkspaces ==
    SearchWorkspaces
    \cup {WorkspaceData("GitHub Copilot", RootPath(1), sessions, <<>>) :
             sessions \in SeqsUpTo(QuerySessions, MaxSessions)}

QueryInit ==
    /\ q_data \in QueryWorkspaces
    /\ q_query = <<>>
    /\ q_case = FALSE
    /\ q_results = <<>>
    /\ q_stats = <<>>
    /\ qpc = "start"
    /\ ParseIdle /\ CliIdle /\ MergeIdle /\ RoundTripIdle /\ ExportIdle

\* search_chat_content(workspace_data, query, case_sensitive)
CallSearchChatContent ==
    /\ qpc = "start"
    /\ \E query \in SearchQueries, case_sensitive \in BOOLEAN :
          /\ q_query' = query
          /\ q_case' = case_sensitive
          /\ q_results' = search_chat_content(q_data, query, case_sensitive)
    /\ qpc' = "searched"
    /\ UNCHANGED <<q_data, q_stats>>
    /\ UNCHANGED <<parseVars, cliVars, mergeVars, rtVars, exportVars>>

\* get_chat_statistics(workspace_data)
CallGetChatStatistics ==
    /\ qpc = "start"
    /\ q_stats' = get_chat_statistics(q_data)
    /\ qpc' = "counted"
    /\ UNCHANGED <<q_data, q_query, q_case, q_results>>
    /\ UNCHANGED <<parseVars, cliVars, mergeVars, rtVars, exportVars>>

QueryNext ==
    \/ CallSearchChatContent
    \/ CallGetChatStatistics

QuerySpec == QueryInit /\ [][QueryNext]_vars


----------------------------------------------------------------------------
(* Claims about search_chat_content *)

\* every message with the id of its session, in traversal order
RECURSIVE Traversal(_)
Traversal(sessions) ==
    IF sessions = <<>> THEN <<>>
    ELSE [j \in 1..Len(Head(sessions).messages) |->
             [session_id |-> Head(sessions).session_id,
              message |-> Head(sessions).messages[j]]]
         \o Traversal(Tail(sessions))

\* the query stands in the content at offset p
At(content, query, p) ==
    /\ p + Len(query) <= Len(content)
    /\ \A k \in 1..Len(query) : content[p + k] = query[k]

Contains(content, query) == \E p \in 0..Len(content) : At(content, query, p)

FirstOffset(content, query) ==
    CHOOSE p \in 0..Len(content) :
        /\ At(content, query, p)
        /\ \A r \in 0..(p - 1) : ~At(content, query, r)

Lowercase(text) == [j \in 1..Len(text) |-> LowerPiece(text[j])]

\* a text as the mode of the call compares it
Compared(text) == IF q_case THEN text ELSE Lowercase(text)

\* the messages whose content contains the query
Hits ==
    SelectSeq(Traversal(q_data.chat_sessions),
              LAMBDA x : Contains(Compared(x.message.content),
                                  Compared(q_query)))

C13_CaseModes ==
    qpc = "searched" =>
       LET all == Traversal(q_data.chat_sessions)
           matching ==
              IF q_case
              THEN SelectSeq(all, LAMBDA x :
                      Contains(x.message.content, q_query))
              ELSE SelectSeq(all, LAMBDA x :
                      Contains(Lowercase(x.message.content),
                               Lowercase(q_query)))
       IN  /\ Len(q_results) = Len(matching)
           /\ \A k \in 1..Len(matching) :
                 q_results[k].full_content = matching[k].message.content

\* a query in capitals found a content in small letters, and the record
\* holds the content as stored
C13_Witness ==
    /\ qpc = "searched"
    /\ ~q_case
    /\ q_query = <<"A", "b">>
    /\ \E k \in 1..Len(q_results) :
          q_results[k].full_content = <<"b", "A", "B", "a", "b">>

\* C14: the context of a record with match position p, query length q and
\* content length L is the window of the content from max(0, p-100) to
\* min(L, p+q+100): it holds the whole match, at most 100 characters before
\* it and at most 100 after it, and is at most q+200 characters long.
C14_ContextWindow ==
    qpc = "searched" =>
       \A k \in 1..Len(q_results) :
          LET content == q_results[k].full_content
              p == q_results[k].match_position
              q == Len(q_query)
              L == Len(content)
              from == IF p - ContextChars > 0 THEN p - ContextChars ELSE 0
              to == IF p + q + ContextChars < L
                    THEN p + q + ContextChars ELSE L
          IN  /\ q_results[k].context = SubSeq(content, from + 1, to)
              /\ from <= p /\ p + q <= to
              /\ p - from <= ContextChars
              /\ to - (p + q) <= ContextChars
              /\ Len(q_results[k].context) <= q + 2 * ContextChars


----------------------------------------------------------------------------
(* Claims about get_chat_statistics *)

RECURSIVE SumOfMessageCounts(_)
SumOfMessageCounts(sessions) ==
    IF sessions = <<>> THEN 0
    ELSE Len(Head(sessions).messages) + SumOfMessageCounts(Tail(sessions))

\* C15: get_chat_statistics returns total_sessions equal to the number of
\* sessions and total_messages equal to the sum of the sessions' message
\* counts; a session without messages counts as a session and adds no
\* message.
C15_Totals ==
    qpc = "counted" =>
       /\ ~q_stats.raised
       /\ q_stats.value.total_sessions = Len(q_data.chat_sessions)
       /\ q_stats.value.total_messages
             = SumOfMessageCounts(q_data.chat_sessions)

\* the timestamps of all sessions and of all messages
TimestampUnion ==
    {q_data.chat_sessions[i].timestamp : i \in 1..Len(q_data.chat_sessions)}
    \cup UNION {{q_data.chat_sessions[i].messages[j].timestamp :
                    j \in 1..Len(q_data.chat_sessions[i].messages)} :
                i \in 1..Len(q_data.chat_sessions)}

\* C16: date_range.earliest and date_range.latest are the minimum and the
\* maximum over all session timestamps and all message timestamps
\* together, and both are None exactly when there is no session.
C16_DateRange ==
    qpc = "counted" =>
       /\ ~q_stats.raised
       /\ (q_data.chat_sessions = <<>>)
             <=> (/\ q_stats.value.date_range.earliest = JNull
                  /\ q_stats.value.date_range.latest = JNull)
       /\ q_data.chat_sessions # <<>> =>
             /\ \E e \in TimestampUnion :
                   /\ \A u \in TimestampUnion : ~Earlier(u, e)
                   /\ q_stats.value.date_range.earliest = JStr(isoformat(e))
             /\ \E l \in TimestampUnion :
                   /\ \A u \in TimestampUnion : ~Earlier(l, u)
                   /\ q_stats.value.date_range.latest = JStr(isoformat(l))

\* the sum of the counts of a frequency table
RECURSIVE SumOfCounts(_)
SumOfCounts(table) ==
    IF table = <<>> THEN 0 ELSE Head(table).value + SumOfCounts(Tail(table))

\* the table counts exactly the keys of the sequence
CountsOf(table, keys) ==
    /\ Keys(table) = {keys[j] : j \in 1..Len(keys)}
    /\ \A k \in Keys(table) :
          Lookup(table, k) = Cardinality({j \in 1..Len(keys) : keys[j] = k})

\* C17: session_types counts the sessions by metadata 'type' ('unknown'
\* without one), message_types counts the messages by metadata 'type' or,
\* without one, by role, agent_activity counts the sessions by agent; the
\* counts of session_types and of agent_activity sum to total_sessions,
\* those of message_types to total_messages.
C17_FrequencyTables ==
    qpc = "counted" =>
       LET sessions == q_data.chat_sessions
           messages == Traversal(sessions)
           stats == q_stats.value
       IN  /\ ~q_stats.raised
           /\ CountsOf(stats.session_types,
                 [j \in 1..Len(sessions) |->
                     IF sessions[j].metadata.type = NoType THEN "unknown"
                     ELSE sessions[j].metadata.type])
           /\ CountsOf(stats.message_types,
                 [j \in 1..Len(messages) |->
                     IF messages[j].message.metadata.type = NoType
                     THEN messages[j].message.role
                     ELSE messages[j].message.metadata.type])
           /\ CountsOf(stats.agent_activity,
                 [j \in 1..Len(sessions) |-> sessions[j].agent])
           /\ SumOfCounts(stats.session_types) = stats.total_sessions
           /\ SumOfCounts(stats.agent_activity) = stats.total_sessions
           /\ SumOfCounts(stats.message_types) = stats.total_messages


----------------------------------------------------------------------------
(* Claims about the messages of the adapters *)

\* the timestamp an adapter resolves for the file
ResolvedTimestamp ==
    IF /\ file.schema = "live"
       /\ file.creationDate.t = "str"
       /\ ValidIso(file.creationDate.s)
    THEN IsoInstant(file.creationDate.s)
    ELSE fromtimestamp(file.mtime)

\* C18: every message of a session that an adapter returns carries the
\* session's one resolved timestamp: the parsed creationDate or the file's
\* modification time for a live session, the modification time for an
\* editing session; none carries another timestamp or none.
C18_MessagesCarrySessionTimestamp ==
    (ppc = "returned" /\ result.kind = "session") =>
       /\ result.session.timestamp = ResolvedTimestamp
       /\ result.session.timestamp # NoTime
       /\ \A j \in 1..Len(result.session.messages) :
             result.session.messages[j].timestamp = ResolvedTimestamp

\* an editing session with two history messages and a snapshot message
C18_Witness ==
    /\ ppc = "returned"
    /\ result.kind = "session"
    /\ file.schema = "editing"
    /\ Len(file.linearHistory.items) = 2
    /\ Len(result.session.messages) = 3
    /\ \A j \in 1..3 :
          result.session.messages[j].timestamp = fromtimestamp(file.mtime)

\* the text of session_id inside f"snapshot_{session_id}"
SnapshotId ==
    "snapshot_" \o (IF result.session.session_id = None THEN "None"
                    ELSE result.session.session_id)

\* the messages are one 'system' message per entry with the ids given,
\* then the snapshot message when there is to be one
EditingMessagesAre(ids, withSnapshot) ==
    LET ms == result.session.messages
        n == Len(ids)
    IN  /\ Len(ms) = n + (IF withSnapshot THEN 1 ELSE 0)
        /\ \A j \in 1..n :
              j <= Len(ms) => ms[j].role = "system" /\ ms[j].id = ids[j]
        /\ (withSnapshot /\ Len(ms) = n + 1) =>
              ms[n + 1].role = "system" /\ ms[n + 1].id = SnapshotId

\* a file with no linearHistory entry and no recentSnapshot
BareEditingFile ==
    /\ file.schema = "editing"
    /\ file.load = "ok" /\ file.top = "dict"
    /\ file.linearHistory.t \in {"absent", "list"}
    /\ file.linearHistory.items = <<>>
    /\ file.recentSnapshot.t = "absent"

\* C19 (as stated): the session's messages are one 'system' message per
\* linearHistory entry, in order, with the entry's requestId or
\* 'request_<index>' as id, then one more with id 'snapshot_<session_id>'
\* if a recentSnapshot is present; a file without entries and snapshot
\* still yields a session, with no messages.
C19_EditingMessages ==
    ppc = "returned" =>
       /\ (file.schema = "editing" /\ result.kind = "session") =>
             EditingMessagesAre(
                [j \in 1..Len(file.linearHistory.items) |->
                    IF file.linearHistory.items[j].requestId.t = "str"
                    THEN file.linearHistory.items[j].requestId.id
                    ELSE "request_" \o ToString(j - 1)],
                file.recentSnapshot.t # "absent")
       /\ BareEditingFile =>
             result.kind = "session" /\ result.session.messages = <<>>

\* C19 (amended): the id is 'request_<index>' only when the entry has no
\* key 'requestId' (a null requestId gives the id None), and the snapshot
\* message is there only when recentSnapshot is present and not empty.
C19_EditingMessagesNonEmptySnapshot ==
    ppc = "returned" =>
       /\ (file.schema = "editing" /\ result.kind = "session") =>
             EditingMessagesAre(
                [j \in 1..Len(file.linearHistory.items) |->
                    CASE file.linearHistory.items[j].requestId.t = "str" ->
                            file.linearHistory.items[j].requestId.id
                      [] file.linearHistory.items[j].requestId.t = "absent" ->
                            "request_" \o ToString(j - 1)
                      [] OTHER -> None],
                file.recentSnapshot.t \in {"dict", "list", "num"}
                   /\ file.recentSnapshot.n # 0)
       /\ BareEditingFile =>
             result.kind = "session" /\ result.session.messages = <<>>

\* two entries, the second without requestId, and a snapshot
C19_Witness ==
    /\ ppc = "returned"
    /\ result.kind = "session"
    /\ file.schema = "editing"
    /\ Len(file.linearHistory.items) = 2
    /\ file.linearHistory.items[2].requestId.t = "absent"
    /\ Len(result.session.messages) = 3
    /\ result.session.messages[2].id = "request_1"
    /\ result.session.messages[3].id = "snapshot_sid"


----------------------------------------------------------------------------
(* Claims about the path of the run over all roots *)

\* the root exists and at least one of its files parses to a session
Yields(i) ==
    /\ fs[i].exists
    /\ \E j \in 1..Len(fs[i].live \o fs[i].editing) :
          ParseFile((fs[i].live \o fs[i].editing)[j]).kind = "session"

\* C20: after the run over all roots workspace_path is the last root, in
\* enumeration order, that yielded a session; a later root that exists and
\* yields none leaves it as it is, and it is unset when no root yielded a
\* session.
C20_WorkspacePathIsLastYieldingRoot ==
    DiscoveryDone =>
       IF \E i \in 1..NumRoots : Yields(i)
       THEN \E i \in 1..NumRoots :
               /\ Yields(i)
               /\ \A k \in (i + 1)..NumRoots : ~Yields(k)
               /\ all_data.workspace_path = RootPath(i)
       ELSE all_data.workspace_path = None

\* the first root yielded a session, the second exists, holds a file and
\* yielded none
C20_Witness ==
    /\ pc = "returned"
    /\ Yields(1)
    /\ fs[2].exists
    /\ fs[2].live # <<>>
    /\ ~Yields(2)
    /\ all_data.workspace_path = RootPath(1)
    /\ RootPath(1) # RootPath(2)

\* the assistant message that a request with resolved text gives
AnsweredRequests(requests) ==
    SelectSeq(requests, LAMBDA r : ResolvedText(r.response) # <<>>)

AssistantsOf(messages) ==
    SelectSeq(messages, LAMBDA m : m.role = "assistant")

\* C21: the assistant text of a request is the first present of 'value',
\* 'text', 'content' of a mapping response, or the response itself when it
\* is a string; the session holds one assistant message, with that text and
\* id = responseId, for exactly the requests whose response resolves to
\* non-empty text, in request order.
C21_AssistantTextPriority ==
    (ppc = "returned" /\ ValidLiveJson(file))
    => LET answered == AnsweredRequests(file.requests.items)
           assistants == AssistantsOf(result.session.messages)
       IN  /\ result.kind = "session"
           /\ Len(assistants) = Len(answered)
           /\ \A j \in 1..Len(answered) :
                 /\ assistants[j].content = ResolvedText(answered[j].response)
                 /\ assistants[j].id = GetId(answered[j].responseId)
                 /\ assistants[j].metadata.type = "assistant_response"

\* a mapping response without 'value' whose 'text' and 'content' both hold
\* text was parsed: the assistant message carries the 'text'
C21_Witness ==
    /\ ppc = "returned"
    /\ ValidLiveJson(file)
    /\ \E j \in 1..Len(file.requests.items) :
          LET response == file.requests.items[j].response
          IN  /\ response.t = "dict"
              /\ response.value.t = "absent"
              /\ response.text = JStr(<<"t">>)
              /\ response.content = JStr(<<"c">>)
              /\ file.requests.items[j].responseId = IdStr("resp")
    /\ \E k \in 1..Len(result.session.messages) :
          /\ result.session.messages[k].role = "assistant"
          /\ result.session.messages[k].content = <<"t">>
          /\ result.session.messages[k].id = "resp"

\* C22: the session_id of a session of parse_chat_session is a string, the
\* source's sessionId when it has one and the file's stem otherwise; the
\* session_id of a session of parse_chat_editing_session is the source's
\* sessionId, or the empty string when it has none.
C22_SessionIdIsString ==
    (ppc = "returned" /\ result.kind = "session")
    => /\ result.session.session_id # None
       /\ result.session.session_id
             = IF file.sessionId.t = "str" THEN file.sessionId.id
               ELSE IF file.schema = "live" THEN file.stem
               ELSE ""

\* C23: for every WorkspaceData that discovery returns, get_chat_statistics
\* completes and returns the statistics mapping, also when the sessions mix
\* timezone-aware timestamps (from a 'Z'-suffixed creationDate) with naive
\* ones (from a file modification time).
C23_StatisticsComplete ==
    DiscoveryDone => ~get_chat_statistics(all_data).raised

\* the text is a contiguous slice of the content
SliceOf(text, content) ==
    \E from \in 0..Len(content) : \E to \in from..Len(content) :
        text = SubSeq(content, from + 1, to)

\* C24: in both modes the context of every record of search_chat_content is
\* a contiguous slice of the record's full_content, the message text in its
\* original letter case, and full_content at match_position begins with
\* text that equals the query under the mode's comparison.
C24_ContextIsSliceOfOriginal ==
    qpc = "searched" =>
       \A k \in 1..Len(q_results) :
          LET content == q_results[k].full_content
              p == q_results[k].match_position
              q == Len(q_query)
          IN  /\ SliceOf(q_results[k].context, content)
              /\ p + q <= Len(content)
              /\ Compared(SubSeq(content, p + 1, p + q)) = Compared(q_query)

\* the value that a root supplied under the key is in the accumulator: under
\* the key, inside the list the key holds, or under the synthesized key
Kept(item, metadata, basename) ==
    \/ /\ item.key \in Keys(metadata)
       /\ \/ Lookup(metadata, item.key) = item.value
          \/ /\ item.value.list
             /\ Lookup(metadata, item.key).list
             /\ SliceOf(item.value.elems, Lookup(metadata, item.key).elems)
    \/ /\ (item.key \o "_" \o basename) \in Keys(metadata)
       /\ Lookup(metadata, item.key \o "_" \o basename) = item.value

\* the value is in the accumulator, as the value of a key or inside the list
\* a key holds
Retrievable(value, metadata) ==
    \E k \in 1..Len(metadata) :
       \/ metadata[k].value = value
       \/ /\ value.list
          /\ metadata[k].value.list
          /\ SliceOf(value.elems, metadata[k].value.elems)

----------------------------------------------------------------------------
(* ChunkedJSONExporter (exporters/chunked_json.py)                         *)
(*                                                                         *)
(* The sessions of an export are JSON mappings; a chunk file holds the     *)
(* list of sessions that was dumped into it.                               *)

ExportSession(id) == [session_id |-> id, messages |-> <<>>]

ExportSessions == {ExportSession(id) : id \in {"a", "b"}}

\* chunk_size is an int that the constructor stores as it is given
ChunkSizes == (-1)..MaxChunkSize

\* range(start, stop, step) raises ValueError when step is 0
RangeRaises(step) == step = 0

\* range(start, stop, step), for a step that is not 0
RECURSIVE Range(_, _, _)
Range(start, stop, step) ==
    IF (step > 0 /\ start < stop) \/ (step < 0 /\ start > stop)
    THEN <<start>> \o Range(start + step, stop, step)
    ELSE <<>>

\* seq[from:to] for 0 <= from
Slice(seq, from, to) == SubSeq(seq, from + 1, Min(to, Len(seq)))

\* the chunks that _chunk_sessions yields
chunk_sessions(sessions, chunk_size) ==
    LET starts == Range(0, Len(sessions), chunk_size)
    IN  [k \in 1..Len(starts) |->
            Slice(sessions, starts[k], starts[k] + chunk_size)]

\* the sessions that _process_chunk_with_pandas dumps into the chunk file:
\* every session of the chunk, in order (a session without messages does
\* not go through a DataFrame)
process_chunk(session_chunk) ==
    [k \in 1..Len(session_chunk) |-> session_chunk[k]]

\* the chat_sessions list that _combine_chunks builds from the chunk files
RECURSIVE combine_chunks(_)
combine_chunks(chunk_files) ==
    IF chunk_files = <<>> THEN <<>>
    ELSE Head(chunk_files) \o combine_chunks(Tail(chunk_files))

\* the output file: none, or the chat_sessions written into it
NoFile == <<>>
Written(chat_sessions) == <<chat_sessions>>

ExportInit ==
    /\ e_sessions \in SeqsUpTo(ExportSessions, MaxExport)
    /\ e_size \in ChunkSizes
    /\ e_chunks = <<>>
    /\ e_files = <<>>
    /\ e_out = NoFile
    /\ epc = "start"
    /\ ParseIdle /\ CliIdle /\ MergeIdle /\ RoundTripIdle /\ QueryIdle

\* export_data_chunked up to the loop over the chunks: without sessions the
\* data is written by _export_simple; a chunk_size of 0 makes range raise
CallExportDataChunked ==
    /\ epc = "start"
    /\ IF e_sessions = <<>>
       THEN /\ e_out' = Written(e_sessions)
            /\ epc' = "written"
            /\ UNCHANGED e_chunks
       ELSE IF RangeRaises(e_size)
       THEN /\ epc' = "raised"
            /\ UNCHANGED <<e_chunks, e_out>>
       ELSE /\ e_chunks' = chunk_sessions(e_sessions, e_size)
            /\ epc' = "chunking"
            /\ UNCHANGED e_out
    /\ UNCHANGED <<e_sessions, e_size, e_files>>
    /\ UNCHANGED <<parseVars, cliVars, mergeVars, rtVars, queryVars>>

\* one turn of the loop: the next chunk is processed into its chunk file
ProcessChunk ==
    /\ epc = "chunking"
    /\ Len(e_files) < Len(e_chunks)
    /\ e_files' = Append(e_files, process_chunk(e_chunks[Len(e_files) + 1]))
    /\ UNCHANGED <<e_sessions, e_size, e_chunks, e_out, epc>>
    /\ UNCHANGED <<parseVars, cliVars, mergeVars, rtVars, queryVars>>

\* after the loop _combine_chunks writes the output file
CombineChunks ==
    /\ epc = "chunking"
    /\ Len(e_files) = Len(e_chunks)
    /\ e_out' = Written(combine_chunks(e_files))
    /\ epc' = "written"
    /\ UNCHANGED <<e_sessions, e_size, e_chunks, e_files>>
    /\ UNCHANGED <<parseVars, cliVars, mergeVars, rtVars, queryVars>>

ExportNext ==
    \/ CallExportDataChunked
    \/ ProcessChunk
    \/ CombineChunks

ExportSpec == ExportInit /\ [][ExportNext]_vars

\* C26: for every chunk_size and every session list export_data_chunked
\* writes a chat_sessions list that is the input list, each session once and
\* in input order: the chunks are consecutive, hold at most chunk_size
\* sessions each and concatenate to the input, and the output is the
\* concatenation of the chunk files in chunk order.
C26_ExportKeepsSessions ==
    /\ epc # "raised"
    /\ epc = "chunking" =>
          /\ combine_chunks(e_chunks) = e_sessions
          /\ \A k \in 1..Len(e_chunks) :
                Len(e_chunks[k]) >= 1 /\ Len(e_chunks[k]) <= e_size
    /\ epc = "written" =>
          /\ e_out = Written(e_sessions)
          /\ e_sessions # <<>> => e_out = Written(combine_chunks(e_chunks))

====
